---- MODULE Spec2Model ----
(***************************************************************************)
(* A model of the NBA analytics ingestion pipeline:                        *)
(*   src/src/nba_analytics/db.py          persistence layer                *)
(*   src/src/nba_analytics/api_client.py  fetch client                     *)
(*   src/src/nba_analytics/ingestion.py   run orchestrator                 *)
(*                                                                         *)
(* JSON values.  A scalar is [t, n, s] with t in "null", "num", "str";     *)
(* numbers are counted in tenths (200 is 20.0).  A dict is a function from *)
(* key names to scalars.  A payload is [k, items, d, s, count] with k in   *)
(* "list", "wrapped", "dict", "str", "null".  Calendar dates are day       *)
(* numbers 1..3 standing for 2026-01-01 .. 2026-01-03; an optional value   *)
(* is [has, v].                                                            *)
(***************************************************************************)
EXTENDS Integers, Sequences, FiniteSets, TLC

VARIABLES
    committed,  \* the store's committed tables
    work,       \* the tables as the open connection sees them (uncommitted writes included)
    clock,      \* NOW() of the store
    seq,        \* the BIGSERIAL sequence of raw_endpoint_snapshot.snapshot_id
    call,       \* the last persistence-layer call made directly (SpecDb)
    repeats,    \* how many times in a row that same call has been repeated
    g,          \* one call of NbaDailyApiClient.get: its position, loop variables and history
    pg,         \* one call of NbaDailyApiClient.paginated_records: the same
    fn,         \* one call of a function without side effects: its arguments and its result
    cc,         \* two calls of run_ingestion at once, each on a connection of its own
    source,     \* what the remote source serves
    run,        \* the current call of run_ingestion: its position, locals and history
    faults,     \* how many more steps may fail (connection loss, source outage)
    hist        \* what the calls of run_ingestion before the current one left behind

dbVars == <<committed, work, clock, seq, call, repeats>>
getVars == <<g, pg, fn, cc>>
runVars == <<source, run, faults, hist>>
vars == <<dbVars, getVars, runVars>>

----------------------------------------------------------------------------
(* Values *)

Null == [t |-> "null", n |-> 0, s |-> ""]
Num(n) == [t |-> "num", n |-> n, s |-> ""]
Str(s) == [t |-> "str", n |-> 0, s |-> s]

NoneV == [has |-> FALSE, v |-> 0]
Some(v) == [has |-> TRUE, v |-> v]

EmptyDict == [key \in {} |-> Null]

\* dict.get(key): None for a missing key
Get(row, key) == IF key \in DOMAIN row THEN row[key] ELSE Null

\* Python truthiness of a scalar: None, "", 0 are falsy
Truthy(v) == \/ (v.t = "str" /\ v.s # "")
             \/ (v.t = "num" /\ v.n # 0)

\* Python's  a or b
Or(a, b) == IF Truthy(a) THEN a ELSE b

\* str.strip() on the sample strings
Strip(s) ==
    CASE s = " A" -> "A"
      [] s = "  " -> ""
      [] s = " 2026-01-02 " -> "2026-01-02"
      [] OTHER -> s

\* text[:10] on the sample strings
First10(s) ==
    CASE s = "2026-01-01T09:30:00" -> "2026-01-01"
      [] OTHER -> s

IsoDates == <<"2026-01-01", "2026-01-02", "2026-01-03">>

Days == 1..Len(IsoDates)

\* date.isoformat()
isoformat(d) == IsoDates[d]

\* date.fromisoformat(text): absent stands for ValueError
fromisoformat(text) ==
    IF \E d \in Days : IsoDates[d] = text
    THEN Some(CHOOSE d \in Days : IsoDates[d] = text)
    ELSE NoneV

\* float(text) on the sample strings: absent stands for ValueError
FloatOfString(s) ==
    CASE s = "20.0" -> Some(200)
      [] s = "15.5" -> Some(155)
      [] s = "0" -> Some(0)
      [] OTHER -> NoneV

\* (a or b or "").strip() or None, for text fields
StripOrNone(v) ==
    LET w == Or(v, Str("")) IN
    IF Strip(w.s) = "" THEN Null ELSE Str(Strip(w.s))

to_float(value) ==
    IF value.t = "null" \/ (value.t = "str" /\ value.s = "") THEN NoneV
    ELSE IF value.t = "num" THEN Some(value.n)
    ELSE FloatOfString(value.s)

to_date(value) ==
    IF value.t = "null" THEN NoneV
    ELSE IF value.t = "num" THEN NoneV
    ELSE LET text == Strip(value.s) IN
         IF text = "" THEN NoneV ELSE fromisoformat(First10(text))

\* sha256 over the canonical (sort_keys) serialization: deterministic, and taken
\* to be collision-free
stable_hash(payload) == [sha256 |-> payload]

Abs(x) == IF x < 0 THEN -x ELSE x

abs_error(actual, projected) ==
    IF actual.has /\ projected.has THEN Some(Abs(actual.v - projected.v)) ELSE NoneV

----------------------------------------------------------------------------
(* Payloads *)

JList(items) == [k |-> "list", items |-> items, d |-> EmptyDict, s |-> "", count |-> Null]
JWrapped(items, count) == [k |-> "wrapped", items |-> items, d |-> EmptyDict, s |-> "", count |-> count]
JDict(d) == [k |-> "dict", items |-> <<>>, d |-> d, s |-> "", count |-> Null]
JStr(s) == [k |-> "str", items |-> <<>>, d |-> EmptyDict, s |-> s, count |-> Null]
JNull == [k |-> "null", items |-> <<>>, d |-> EmptyDict, s |-> "", count |-> Null]

\* a list of dicts as a payload
RowsPayload(rows) == JList([i \in 1..Len(rows) |-> JDict(rows[i])])

----------------------------------------------------------------------------
(* Persistence layer: db.py *)

EmptyTables ==
    [runs |-> {}, snap |-> {}, pred |-> {}, acc |-> {}, slate |-> {},
     proj |-> {}, top3 |-> {}, port |-> {}]

SameKey(a, b, key) == \A f \in key : a[f] = b[f]

\* a plain INSERT: every statement adds a row
InsertAlways(tbl, new, key, set) == tbl \cup {new}

\* INSERT ... ON CONFLICT (key) DO UPDATE SET set = EXCLUDED.set
InsertOnConflictDoUpdate(tbl, new, key, set) ==
    IF \E old \in tbl : SameKey(old, new, key)
    THEN { IF SameKey(r, new, key)
           THEN [f \in DOMAIN r |-> IF f \in set THEN new[f] ELSE r[f]]
           ELSE r : r \in tbl }
    ELSE tbl \cup {new}

\* ux_raw_endpoint_snapshot (endpoint, snapshot_date, payload_hash): in a unique
\* index two NULLs are distinct, so a row with a NULL snapshot_date conflicts
\* with no other row
UniqueConflict(old, endpoint, snapshot_date, payload_hash) ==
    /\ old.endpoint = endpoint
    /\ snapshot_date.has
    /\ old.snapshot_date = snapshot_date
    /\ old.payload_hash = payload_hash

\* INSERT ... ON CONFLICT (endpoint, snapshot_date, payload_hash) DO NOTHING
store_raw_snapshot(tbl, endpoint, snapshot_date, payload, id, now) ==
    LET payload_hash == stable_hash(payload) IN
    IF \E old \in tbl : UniqueConflict(old, endpoint, snapshot_date, payload_hash)
    THEN tbl
    ELSE tbl \cup {[snapshot_id |-> id, endpoint |-> endpoint,
                    snapshot_date |-> snapshot_date, payload |-> payload,
                    retrieved_at |-> now, payload_hash |-> payload_hash]}

prediction_row_key(game_date, row) ==
    stable_hash([date |-> isoformat(game_date),
                 player_name |-> StripOrNone(Or(Get(row, "player_name"), Get(row, "name"))),
                 team |-> StripOrNone(Or(Get(row, "team"), Get(row, "team_name"))),
                 row |-> row])

prediction_values(game_date, row, now) ==
    LET player_name == StripOrNone(Or(Get(row, "player_name"), Get(row, "name")))
        team == StripOrNone(Or(Get(row, "team"), Get(row, "team_name")))
        projected == to_float(Or(Or(Get(row, "projected_ppg"), Get(row, "projection_ppg")),
                                 Get(row, "projected_points")))
        actual == to_float(Or(Get(row, "actual_ppg"), Get(row, "actual_points")))
    IN  [row_key |-> prediction_row_key(game_date, row), game_date |-> game_date,
         player_name |-> player_name, team |-> team,
         projected_ppg |-> projected, actual_ppg |-> actual,
         absolute_error |-> abs_error(actual, projected),
         payload |-> row, ingested_at |-> now]

RECURSIVE upsert_prediction_loop(_, _, _, _, _)
upsert_prediction_loop(tbl, game_date, rows, now, i) ==
    IF i > Len(rows) THEN tbl
    ELSE upsert_prediction_loop(
             InsertOnConflictDoUpdate(tbl, prediction_values(game_date, rows[i], now),
                 {"row_key"},
                 {"projected_ppg", "actual_ppg", "absolute_error", "payload", "ingested_at"}),
             game_date, rows, now, i + 1)

upsert_prediction_rows(tbl, game_date, rows, now) ==
    [tbl |-> upsert_prediction_loop(tbl, game_date, rows, now, 1), inserted |-> Len(rows)]

accuracy_date(row) == to_date(Or(Get(row, "game_date"), Get(row, "date")))

accuracy_values(row, now) ==
    [game_date |-> accuracy_date(row).v,
     mean_absolute_error |-> to_float(Or(Get(row, "mean_absolute_error"), Get(row, "mae"))),
     rmse |-> to_float(Get(row, "rmse")),
     hit_rate_floor_ceiling |-> to_float(Or(Get(row, "hit_rate_floor_ceiling"), Get(row, "hit_rate"))),
     mean_error |-> to_float(Get(row, "mean_error")),
     payload |-> row, ingested_at |-> now]

\* a row without a date is not passed over
skips_nothing(game_date) == FALSE

\* if game_date is None: continue
skips_row(game_date) == ~game_date.has

RECURSIVE upsert_accuracy_loop(_, _, _, _)
upsert_accuracy_loop(acc, rows, now, i) ==
    IF i > Len(rows) THEN acc
    ELSE IF skips_row(accuracy_date(rows[i]))
    THEN upsert_accuracy_loop(acc, rows, now, i + 1)
    ELSE upsert_accuracy_loop(
             [tbl |-> InsertOnConflictDoUpdate(acc.tbl, accuracy_values(rows[i], now),
                          {"game_date"},
                          {"mean_absolute_error", "rmse", "hit_rate_floor_ceiling",
                           "mean_error", "payload", "ingested_at"}),
              inserted |-> acc.inserted + 1],
             rows, now, i + 1)

upsert_accuracy_rows(tbl, rows, now) ==
    upsert_accuracy_loop([tbl |-> tbl, inserted |-> 0], rows, now, 1)

upsert_dfs_slate_row(tbl, slate_date, row, now) ==
    [tbl |-> InsertOnConflictDoUpdate(tbl,
                 [slate_date |-> slate_date,
                  proj_mae |-> to_float(Get(row, "proj_mae")),
                  proj_correlation |-> to_float(Get(row, "proj_correlation")),
                  lineup_efficiency_pct |-> to_float(Get(row, "lineup_efficiency_pct")),
                  value_correlation |-> to_float(Get(row, "value_correlation")),
                  payload |-> row, ingested_at |-> now],
                 {"slate_date"},
                 {"proj_mae", "proj_correlation", "lineup_efficiency_pct",
                  "value_correlation", "payload", "ingested_at"}),
     inserted |-> 1]

dfs_projection_row_key(slate_date, row) ==
    stable_hash([date |-> isoformat(slate_date),
                 player_name |-> StripOrNone(Or(Get(row, "player_name"), Get(row, "name"))),
                 team |-> StripOrNone(Or(Get(row, "team"), Get(row, "team_name"))),
                 row |-> row])

dfs_projection_values(slate_date, row, now) ==
    LET player_name == StripOrNone(Or(Get(row, "player_name"), Get(row, "name")))
        team == StripOrNone(Or(Get(row, "team"), Get(row, "team_name")))
        proj == to_float(Or(Get(row, "proj_fpts"), Get(row, "projected_fpts")))
        actual == to_float(Get(row, "actual_fpts"))
    IN  [row_key |-> dfs_projection_row_key(slate_date, row), slate_date |-> slate_date,
         player_name |-> player_name, team |-> team,
         proj_fpts |-> proj, actual_fpts |-> actual,
         absolute_error |-> abs_error(actual, proj),
         payload |-> row, ingested_at |-> now]

RECURSIVE upsert_dfs_projection_loop(_, _, _, _, _)
upsert_dfs_projection_loop(tbl, slate_date, rows, now, i) ==
    IF i > Len(rows) THEN tbl
    ELSE upsert_dfs_projection_loop(
             InsertOnConflictDoUpdate(tbl, dfs_projection_values(slate_date, rows[i], now),
                 {"row_key"},
                 {"proj_fpts", "actual_fpts", "absolute_error", "payload", "ingested_at"}),
             slate_date, rows, now, i + 1)

upsert_dfs_projection_rows(tbl, slate_date, rows, now) ==
    [tbl |-> upsert_dfs_projection_loop(tbl, slate_date, rows, now, 1), inserted |-> Len(rows)]

backtest_date(row) == to_date(Or(Get(row, "slate_date"), Get(row, "date")))

backtest_strategy(row) == StripOrNone(Or(Get(row, "strategy"), Get(row, "strategy_name")))

backtest_row_key(table_name, row) ==
    stable_hash([table_name |-> table_name,
                 date |-> IF backtest_date(row).has THEN isoformat(backtest_date(row).v) ELSE "",
                 strategy |-> backtest_strategy(row),
                 row |-> row])

backtest_values(table_name, row, now) ==
    [row_key |-> backtest_row_key(table_name, row), slate_date |-> backtest_date(row),
     strategy |-> backtest_strategy(row), payload |-> row, ingested_at |-> now]

RECURSIVE upsert_backtest_loop(_, _, _, _, _)
upsert_backtest_loop(tbl, table_name, rows, now, i) ==
    IF i > Len(rows) THEN tbl
    ELSE upsert_backtest_loop(
             InsertOnConflictDoUpdate(tbl, backtest_values(table_name, rows[i], now),
                 {"row_key"}, {"strategy", "payload", "ingested_at"}),
             table_name, rows, now, i + 1)

upsert_backtest_rows(tbl, table_name, rows, now) ==
    [tbl |-> upsert_backtest_loop(tbl, table_name, rows, now, 1), inserted |-> Len(rows)]

----------------------------------------------------------------------------
(* Fetch client: api_client.py *)

\* max_retries: int = 3
DefaultMaxRetries == 3

\* An HTTP attempt's outcome: a network-level failure (requests.RequestException)
\* or a response with a status code, a body that parses as JSON or does not
\* (response.json() raises ValueError), and the body text
NetworkFailure == [kind |-> "net", status |-> 0, parseable |-> FALSE, json |-> JNull, text |-> ""]
HttpResponse(status, parseable, json, text) ==
    [kind |-> "http", status |-> status, parseable |-> parseable, json |-> json, text |-> text]

\* Exceptions.  ApiClientError of line 37 carries the status and the body text
\* (its message is "GET path failed (status): text"); ApiClientError of line 45
\* carries the last underlying error (its message ends with str(last_error)).
NoError == [type |-> "None", status |-> 0, detail |-> ""]
RequestException == [type |-> "RequestException", status |-> 0, detail |-> ""]
ValueError == [type |-> "ValueError", status |-> 0, detail |-> ""]
StatusError(status, detail) == [type |-> "ApiClientError", status |-> status, detail |-> detail]
AfterRetriesError(path, last_error) ==
    [type |-> "ApiClientError", fmt |-> "after retries", path |-> path, cause |-> last_error]

\* a status at or above 500 is a failure
StatusIsErrorFrom500(status_code) == status_code >= 500

\* response.status_code >= 400
StatusIsError(status_code) == status_code >= 400

\* the body of the try block of one attempt: the parsed body, or the exception raised
attempt_outcome(response) ==
    IF response.kind = "net" THEN [ok |-> FALSE, value |-> JNull, exc |-> RequestException]
    ELSE IF StatusIsError(response.status)
    THEN [ok |-> FALSE, value |-> JNull, exc |-> StatusError(response.status, response.text)]
    ELSE IF ~response.parseable THEN [ok |-> FALSE, value |-> JNull, exc |-> ValueError]
    ELSE [ok |-> TRUE, value |-> response.json, exc |-> NoError]

\* the loop stops one attempt early
IsLastAttemptOffByOne(attempt, max_retries) == attempt + 1 >= max_retries

\* if attempt == self.max_retries: break
IsLastAttempt(attempt, max_retries) == attempt = max_retries

\* get as a function of the responses the source gives to its successive attempts
RECURSIVE get_loop(_, _, _, _, _)
get_loop(path, responses, max_retries, attempt, last_error) ==
    IF attempt > max_retries \/ attempt > Len(responses)
    THEN [ok |-> FALSE, value |-> JNull, exc |-> AfterRetriesError(path, last_error)]
    ELSE LET out == attempt_outcome(responses[attempt]) IN
         IF out.ok THEN [ok |-> TRUE, value |-> out.value, exc |-> NoError]
         ELSE IF IsLastAttempt(attempt, max_retries)
         THEN [ok |-> FALSE, value |-> JNull, exc |-> AfterRetriesError(path, out.exc)]
         ELSE get_loop(path, responses, max_retries, attempt + 1, out.exc)

get(path, responses, max_retries) == get_loop(path, responses, max_retries, 1, NoError)

\* [x for x in items if isinstance(x, dict)]
DictItems(items) ==
    LET kept == SelectSeq(items, LAMBDA x : x.k = "dict")
    IN  [i \in 1..Len(kept) |-> kept[i].d]

\* the bare-object case is tried before the wrapped-list case
records_object_first(payload) ==
    IF payload.k = "dict" \/ payload.k = "wrapped" THEN <<payload.d>>
    ELSE IF payload.k = "list" THEN DictItems(payload.items)
    ELSE <<>>

\* NbaDailyApiClient.records
records(payload) ==
    IF payload.k = "wrapped" THEN DictItems(payload.items)
    ELSE IF payload.k = "list" THEN DictItems(payload.items)
    ELSE IF payload.k = "dict" THEN <<payload.d>>
    ELSE <<>>

\* str(x) of a list item
ItemStr(x) == IF x.k = "str" THEN x.s ELSE IF x.k = "null" THEN "None" ELSE "<repr>"

\* only a bare list is read; a wrapped list gives nothing
date_values_bare_list_only(payload) ==
    IF payload.k = "list"
    THEN [i \in 1..Len(payload.items) |-> ItemStr(payload.items[i])]
    ELSE <<>>

\* NbaDailyApiClient.date_values
date_values(payload) ==
    IF payload.k = "wrapped" \/ payload.k = "list"
    THEN [i \in 1..Len(payload.items) |-> ItemStr(payload.items[i])]
    ELSE <<>>

\* isinstance(x, int), for a number counted in tenths
IsInt(x) == x.t = "num" /\ x.n % 10 = 0

\* isinstance(payload, dict) and isinstance(payload.get("count"), int)
HasCount(payload) ==
    \/ (payload.k = "wrapped" /\ IsInt(payload.count))
    \/ (payload.k = "dict" /\ IsInt(Get(payload.d, "count")))

\* payload["count"]
CountOf(payload) ==
    IF payload.k = "wrapped" THEN payload.count.n \div 10 ELSE Get(payload.d, "count").n \div 10

\* the loop ends one pass late
InRangeOffByOne(i, max_pages) == i <= max_pages

\* for _ in range(max_pages): whether pass i (counted from 0) takes place
InRange(i, max_pages) == i < max_pages

\* a short page does not end the loop
ShortPageIgnored(rows, limit) == FALSE

\* if len(rows) < limit: break
ShortPage(rows, limit) == Len(rows) < limit

\* the body of the loop after get has returned payload: the rows accumulated,
\* the next offset, and whether the loop breaks
after_page(payload, all_rows, offset, limit) ==
    LET rows == records(payload) IN
    IF rows = <<>> THEN [all_rows |-> all_rows, offset |-> offset, stop |-> TRUE]
    ELSE IF HasCount(payload) /\ offset + Len(rows) >= CountOf(payload)
    THEN [all_rows |-> all_rows \o rows, offset |-> offset, stop |-> TRUE]
    ELSE IF ShortPage(rows, limit)
    THEN [all_rows |-> all_rows \o rows, offset |-> offset, stop |-> TRUE]
    ELSE [all_rows |-> all_rows \o rows, offset |-> offset + Len(rows), stop |-> FALSE]

\* the rows accumulated so far are returned when get raises
get_error_returns_rows(all_rows, exc) == [ok |-> TRUE, rows |-> all_rows, exc |-> NoError]

\* get raises inside the loop: nothing catches it, the accumulated rows are lost
get_error(all_rows, exc) == [ok |-> FALSE, rows |-> <<>>, exc |-> exc]

\* params of a call: the offset and limit keys, when the caller put them there
NoParams == [offset |-> NoneV, limit |-> NoneV]

\* offset = int(params.pop("offset", 0))
StartOffset(params) == IF params.offset.has THEN params.offset.v ELSE 0

\* limit = int(params.pop("limit", page_size))
Limit(params, page_size) == IF params.limit.has THEN params.limit.v ELSE page_size

\* paginated_records: fetch[offset] is what get returns, or raises, for the page
\* requested at that offset
RECURSIVE paginated_loop(_, _, _, _, _, _)
paginated_loop(fetch, all_rows, offset, limit, i, max_pages) ==
    IF ~InRange(i, max_pages) \/ offset \notin DOMAIN fetch
    THEN [ok |-> TRUE, rows |-> all_rows, exc |-> NoError]
    ELSE LET out == fetch[offset] IN
         IF ~out.ok THEN get_error(all_rows, out.exc)
         ELSE LET a == after_page(out.value, all_rows, offset, limit) IN
              IF a.stop THEN [ok |-> TRUE, rows |-> a.all_rows, exc |-> NoError]
              ELSE paginated_loop(fetch, a.all_rows, a.offset, limit, i + 1, max_pages)

paginated_records(fetch, params, page_size, max_pages) ==
    paginated_loop(fetch, <<>>, StartOffset(params), Limit(params, page_size), 0, max_pages)

----------------------------------------------------------------------------
(* Date filter and orchestrator helpers: ingestion.py *)

RECURSIVE SortedSeq(_)
SortedSeq(S) ==
    IF S = {} THEN <<>>
    ELSE LET m == CHOOSE x \in S : \A y \in S : x <= y
         IN  <<m>> \o SortedSeq(S \ {m})

\* the lookback replaces an explicit start date
derived_start_lookback_first(start_date, lookback_days, today) ==
    IF lookback_days.has THEN Some(today - lookback_days.v) ELSE start_date

\* lines 28-29: if start_date is None and lookback_days is not None: ...
derived_start(start_date, lookback_days, today) ==
    IF ~start_date.has /\ lookback_days.has
    THEN Some(today - lookback_days.v) ELSE start_date

\* the bounds themselves are left out
in_bounds_exclusive(d, start, end_date) ==
    /\ ~(start.has /\ d <= start.v)
    /\ ~(end_date.has /\ d >= end_date.v)

\* lines 33-36: whether the loop appends d
in_bounds(d, start, end_date) ==
    /\ ~(start.has /\ d < start.v)
    /\ ~(end_date.has /\ d > end_date.v)

\* filter_dates; ok = FALSE stands for the ValueError of date.fromisoformat
filter_dates(values, start_date, end_date, lookback_days, today) ==
    LET given == {i \in 1..Len(values) : values[i] # ""}
        parsed == {fromisoformat(First10(values[i])) : i \in given}
        start == derived_start(start_date, lookback_days, today)
        kept == {p.v : p \in {q \in parsed : in_bounds(q.v, start, end_date)}}
    IN  IF \E p \in parsed : ~p.has THEN [ok |-> FALSE, dates |-> <<>>]
        ELSE IF parsed = {} THEN [ok |-> TRUE, dates |-> <<>>]
        ELSE [ok |-> TRUE, dates |-> SortedSeq(kept)]

EmptyStats ==
    [prediction_rows |-> 0, accuracy_rows |-> 0, dfs_slate_rows |-> 0,
     dfs_projection_rows |-> 0, backtest_top3_rows |-> 0, backtest_portfolio_rows |-> 0]

\* IngestionStats.as_dict
as_dict(stats) ==
    [prediction_rows |-> stats.prediction_rows, accuracy_rows |-> stats.accuracy_rows,
     dfs_slate_rows |-> stats.dfs_slate_rows, dfs_projection_rows |-> stats.dfs_projection_rows,
     backtest_top3_rows |-> stats.backtest_top3_rows,
     backtest_portfolio_rows |-> stats.backtest_portfolio_rows]

\* "(404)" in text, on the sample body texts
TextHas404(text) == text = "upstream said (404)"

\* "(404)" in str(exc), for the ApiClientError that get raises after its retries:
\* its message ends with the message of the last underlying error, which for a
\* status error is "GET path failed (status): text"
MessageHas404(exc) ==
    /\ exc.type = "ApiClientError"
    /\ exc.cause.type = "ApiClientError"
    /\ (exc.cause.status = 404 \/ TextHas404(exc.cause.detail))

\* the status of the last response, for the error that get raises when that
\* response was a status error; 0 otherwise
FinalStatus(exc) ==
    IF "cause" \in DOMAIN exc /\ exc.cause.type = "ApiClientError" THEN exc.cause.status ELSE 0

\* a not-found answer is never taken for "no data"
get_or_none_always_raises(out) == out

\* _get_or_none: None (a null payload) for an error whose message holds "(404)"
get_or_none(out) ==
    IF ~out.ok /\ MessageHas404(out.exc)
    THEN [ok |-> TRUE, value |-> JNull, exc |-> NoError]
    ELSE out

\* truthiness of a payload: None, an empty list, dict or string are falsy
PayloadTruthy(payload) ==
    \/ (payload.k = "list" /\ payload.items # <<>>)
    \/ payload.k = "wrapped"
    \/ (payload.k = "dict" /\ DOMAIN payload.d # {})
    \/ (payload.k = "str" /\ payload.s # "")

----------------------------------------------------------------------------
(* Sample records *)

P1 == [player_name |-> Str("A"), team |-> Str("X"), projected_ppg |-> Num(200), actual_ppg |-> Num(155)]
P2 == [player_name |-> Str("A"), team |-> Str("X"), projected_ppg |-> Num(210), actual_ppg |-> Num(155)]
P3 == [name |-> Str(" A"), team_name |-> Str("X"), projected_points |-> Str("20.0")]
P4 == [player_name |-> Str("B"), team |-> Str("X"), projected_ppg |-> Num(0), actual_ppg |-> Num(155)]

A1 == [game_date |-> Str("2026-01-01"), mean_absolute_error |-> Num(45), rmse |-> Num(60)]
A2 == [game_date |-> Str("2026-01-01"), mean_absolute_error |-> Num(50), rmse |-> Num(60)]
A3 == [date |-> Str("2026-01-01T09:30:00"), mae |-> Str("15.5")]
A4 == [game_date |-> Str("bad"), mae |-> Num(45)]
A5 == [mae |-> Num(45)]

S1 == [proj_mae |-> Num(80), proj_correlation |-> Num(5)]
S2 == [proj_mae |-> Num(90), proj_correlation |-> Num(5)]

J1 == [player_name |-> Str("A"), team |-> Str("X"), proj_fpts |-> Num(300), actual_fpts |-> Num(280)]
J2 == [player_name |-> Str("A"), team |-> Str("X"), proj_fpts |-> Num(310), actual_fpts |-> Num(280)]
J3 == [name |-> Str("B"), projected_fpts |-> Str("x")]
J4 == [player_name |-> Str("B"), team |-> Str("X"), proj_fpts |-> Num(0), actual_fpts |-> Num(280)]
J5 == [player_name |-> Str("C"), team |-> Str("X"), proj_fpts |-> Num(300), actual_fpts |-> Num(0)]

B1 == [slate_date |-> Str("2026-01-01"), strategy |-> Str("top"), roi |-> Num(10)]
B2 == [slate_date |-> Str("2026-01-01"), strategy |-> Str("top"), roi |-> Num(20)]
B3 == [date |-> Str(" 2026-01-02 "), strategy_name |-> Str("top")]
B4 == [strategy |-> Str("top"), roi |-> Num(10)]

PredictionBatches == {<<>>, <<P1>>, <<P2>>, <<P3, P1>>, <<P4, P4>>}
AccuracyBatches == {<<>>, <<A1>>, <<A2>>, <<A4, A3>>, <<A5, A1>>}
SlateRows == {S1, S2}
ProjectionBatches == {<<>>, <<J1>>, <<J2>>, <<J3, J1>>, <<J4, J5>>}
BacktestBatches == {<<>>, <<B1>>, <<B2>>, <<B4, B3>>, <<B4>>}

\* the keys of the sample records that hold the measured numbers
NumericKeys ==
    {"projected_ppg", "projection_ppg", "projected_points", "actual_ppg", "actual_points",
     "mean_absolute_error", "mae", "rmse", "hit_rate_floor_ceiling", "hit_rate", "mean_error",
     "proj_mae", "proj_correlation", "lineup_efficiency_pct", "value_correlation",
     "proj_fpts", "projected_fpts", "actual_fpts", "roi"}

DbDays == {1, 2}
DbSnapshotDates == {NoneV} \cup {Some(d) : d \in DbDays}
DbEndpoints == {"/predictions", "/accuracy/daily-summary"}
DbPayloads == {RowsPayload(<<P1>>), JWrapped(<<JDict(A1)>>, Num(10))}

\* the number of persistence-layer calls made directly
MaxCalls == 2

----------------------------------------------------------------------------
(* The persistence layer called directly on an open connection *)

NoCall ==
    [op |-> "none", table |-> "", date |-> NoneV, rows |-> <<>>,
     endpoint |-> "", payload |-> JNull, inserted |-> 0]

InitDbVars ==
    /\ committed = EmptyTables
    /\ work = EmptyTables
    /\ clock = 0
    /\ seq = 0
    /\ call = NoCall
    /\ repeats = 0

DbStep(newcall, newwork, newseq) ==
    /\ clock < MaxCalls
    /\ work' = newwork
    /\ clock' = clock + 1
    /\ seq' = newseq
    /\ call' = newcall
    /\ repeats' = IF newcall = call THEN repeats + 1 ELSE 0
    /\ UNCHANGED <<committed, getVars, runVars>>

DbStoreRawSnapshot ==
    \E endpoint \in DbEndpoints, d \in DbSnapshotDates, payload \in DbPayloads :
        DbStep([NoCall EXCEPT !.op = "store_raw_snapshot", !.endpoint = endpoint,
                              !.date = d, !.payload = payload],
               [work EXCEPT !.snap = store_raw_snapshot(@, endpoint, d, payload, seq + 1, clock + 1)],
               seq + 1)

DbUpsertPredictionRows ==
    \E d \in DbDays, rows \in PredictionBatches :
        DbStep([NoCall EXCEPT !.op = "upsert_prediction_rows", !.table = "pred",
                              !.date = Some(d), !.rows = rows,
                              !.inserted = upsert_prediction_rows(work.pred, d, rows, clock + 1).inserted],
               [work EXCEPT !.pred = upsert_prediction_rows(@, d, rows, clock + 1).tbl],
               seq)

DbUpsertAccuracyRows ==
    \E rows \in AccuracyBatches :
        DbStep([NoCall EXCEPT !.op = "upsert_accuracy_rows", !.table = "acc", !.rows = rows,
                              !.inserted = upsert_accuracy_rows(work.acc, rows, clock + 1).inserted],
               [work EXCEPT !.acc = upsert_accuracy_rows(@, rows, clock + 1).tbl],
               seq)

DbUpsertDfsSlateRow ==
    \E d \in DbDays, row \in SlateRows :
        DbStep([NoCall EXCEPT !.op = "upsert_dfs_slate_row", !.table = "slate",
                              !.date = Some(d), !.rows = <<row>>,
                              !.inserted = upsert_dfs_slate_row(work.slate, d, row, clock + 1).inserted],
               [work EXCEPT !.slate = upsert_dfs_slate_row(@, d, row, clock + 1).tbl],
               seq)

DbUpsertDfsProjectionRows ==
    \E d \in DbDays, rows \in ProjectionBatches :
        DbStep([NoCall EXCEPT !.op = "upsert_dfs_projection_rows", !.table = "proj",
                              !.date = Some(d), !.rows = rows,
                              !.inserted = upsert_dfs_projection_rows(work.proj, d, rows, clock + 1).inserted],
               [work EXCEPT !.proj = upsert_dfs_projection_rows(@, d, rows, clock + 1).tbl],
               seq)

DbUpsertBacktestRows ==
    \E t \in {"top3", "port"}, rows \in BacktestBatches :
        DbStep([NoCall EXCEPT !.op = "upsert_backtest_rows", !.table = t, !.rows = rows,
                              !.inserted = upsert_backtest_rows(work[t],
                                  IF t = "top3" THEN "backtest_top3_daily" ELSE "backtest_portfolio_daily",
                                  rows, clock + 1).inserted],
               [work EXCEPT ![t] = upsert_backtest_rows(@,
                    IF t = "top3" THEN "backtest_top3_daily" ELSE "backtest_portfolio_daily",
                    rows, clock + 1).tbl],
               seq)

NextDb ==
    \/ DbStoreRawSnapshot
    \/ DbUpsertPredictionRows
    \/ DbUpsertAccuracyRows
    \/ DbUpsertDfsSlateRow
    \/ DbUpsertDfsProjectionRows
    \/ DbUpsertBacktestRows

----------------------------------------------------------------------------
(* Claims about the persistence layer, checked under SpecDb *)

UpsertOps ==
    {"upsert_prediction_rows", "upsert_accuracy_rows", "upsert_dfs_slate_row",
     "upsert_dfs_projection_rows", "upsert_backtest_rows"}

NormalizedTables == {"pred", "acc", "slate", "proj", "top3", "port"}

\* a table without its refresh timestamps
WithoutTimestamps(tbl) == {[r EXCEPT !.ingested_at = 0] : r \in tbl}

\* whether row i of call c is stored at all (a row without a parseable date is
\* skipped by upsert_accuracy_rows)
Stored(c, i) == c.op = "upsert_accuracy_rows" => accuracy_date(c.rows[i]).has

\* the rows of table c.table, in tables t, stored under the natural key of row i of call c
RowsOfKey(t, c, i) ==
    CASE c.op = "upsert_prediction_rows" ->
            {r \in t.pred : r.row_key = prediction_row_key(c.date.v, c.rows[i])}
      [] c.op = "upsert_dfs_projection_rows" ->
            {r \in t.proj : r.row_key = dfs_projection_row_key(c.date.v, c.rows[i])}
      [] c.op = "upsert_accuracy_rows" ->
            {r \in t.acc : r.game_date = accuracy_date(c.rows[i]).v}
      [] c.op = "upsert_dfs_slate_row" ->
            {r \in t.slate : r.slate_date = c.date.v}
      [] c.op = "upsert_backtest_rows" /\ c.table = "top3" ->
            {r \in t.top3 : r.row_key = backtest_row_key("backtest_top3_daily", c.rows[i])}
      [] OTHER ->
            {r \in t.port : r.row_key = backtest_row_key("backtest_portfolio_daily", c.rows[i])}

\* the rows of table c.table, in tables t, of the logical record of row i of call c:
\* same date, entity name and team; same date and strategy for backtests; same
\* date for accuracy and DFS-slate rows
RowsOfLogicalRecord(t, c, i) ==
    CASE c.op = "upsert_prediction_rows" ->
            {r \in t.pred : /\ r.game_date = c.date.v
                            /\ r.player_name = prediction_values(c.date.v, c.rows[i], 0).player_name
                            /\ r.team = prediction_values(c.date.v, c.rows[i], 0).team}
      [] c.op = "upsert_dfs_projection_rows" ->
            {r \in t.proj : /\ r.slate_date = c.date.v
                            /\ r.player_name = dfs_projection_values(c.date.v, c.rows[i], 0).player_name
                            /\ r.team = dfs_projection_values(c.date.v, c.rows[i], 0).team}
      [] c.op = "upsert_accuracy_rows" ->
            {r \in t.acc : r.game_date = accuracy_date(c.rows[i]).v}
      [] c.op = "upsert_dfs_slate_row" ->
            {r \in t.slate : r.slate_date = c.date.v}
      [] c.op = "upsert_backtest_rows" /\ c.table = "top3" ->
            {r \in t.top3 : /\ r.slate_date = backtest_date(c.rows[i])
                            /\ r.strategy = backtest_strategy(c.rows[i])}
      [] OTHER ->
            {r \in t.port : /\ r.slate_date = backtest_date(c.rows[i])
                            /\ r.strategy = backtest_strategy(c.rows[i])}

\* C1: an upsert operation applied a second time with identical row content
\* leaves every normalized table as it was after the first application, up to the
\* refresh timestamp, and exactly one stored row under the natural key of each
\* row it stores.
C1_UpsertTwiceIsIdempotent ==
    [][ (clock' # clock /\ call' = call /\ call.op \in UpsertOps) =>
          /\ \A t \in NormalizedTables :
                /\ WithoutTimestamps(work'[t]) = WithoutTimestamps(work[t])
                /\ Cardinality(work'[t]) = Cardinality(work[t])
          /\ \A i \in 1..Len(call.rows) :
                Stored(call, i) => Cardinality(RowsOfKey(work', call, i)) = 1 ]_vars

\* an upsert has just been applied a second time with the same rows, and it
\* refreshed the timestamp of a stored row
C1_Witness ==
    /\ call.op \in UpsertOps
    /\ repeats >= 1
    /\ Len(call.rows) >= 1
    /\ \E i \in 1..Len(call.rows) :
          /\ Stored(call, i)
          /\ \E r \in RowsOfKey(work, call, i) : r.ingested_at = clock /\ clock >= 2

\* call b re-ingests the logical records of call a with only measured numbers changed
ChangedNumericField(a, b) ==
    /\ a.op \in UpsertOps
    /\ b.op = a.op /\ b.table = a.table /\ b.date = a.date
    /\ Len(b.rows) = Len(a.rows)
    /\ Len(a.rows) >= 1
    /\ b.rows # a.rows
    /\ \A i \in 1..Len(a.rows) :
          /\ DOMAIN b.rows[i] = DOMAIN a.rows[i]
          /\ \A key \in DOMAIN a.rows[i] \ NumericKeys : b.rows[i][key] = a.rows[i][key]
          /\ Stored(a, i)

\* C2: re-ingesting the same logical record with a changed numeric field leaves
\* exactly one stored row for that logical record, holding the latest payload.
C2_ChangedFieldUpdatesInPlace ==
    [][ (clock' # clock /\ ChangedNumericField(call, call')) =>
          \A i \in 1..Len(call'.rows) :
             /\ Cardinality(RowsOfLogicalRecord(work', call', i)) = 1
             /\ \A r \in RowsOfLogicalRecord(work', call', i) : r.payload = call'.rows[i] ]_vars

\* C3: storing the same (endpoint, date, payload) a second time leaves exactly
\* one raw_endpoint_snapshot row for that (endpoint, date, content hash), the
\* absent date included.
C3_SnapshotTwiceStoresOne ==
    [][ (clock' # clock /\ call' = call /\ call.op = "store_raw_snapshot") =>
          Cardinality({r \in work'.snap : /\ r.endpoint = call.endpoint
                                          /\ r.snapshot_date = call.date
                                          /\ r.payload_hash = stable_hash(call.payload)}) = 1 ]_vars

\* the number a raw record carries under the first of these keys that holds one
RECURSIVE RawNumber(_, _)
RawNumber(row, keys) ==
    IF keys = <<>> THEN NoneV
    ELSE IF to_float(Get(row, Head(keys))).has THEN to_float(Get(row, Head(keys)))
    ELSE RawNumber(row, Tail(keys))

\* the absolute error a stored row should carry, going by its raw record
ExpectedError(row, projected_keys, actual_keys) ==
    LET projected == RawNumber(row, projected_keys)
        actual == RawNumber(row, actual_keys)
    IN  IF projected.has /\ actual.has
        THEN Some(IF actual.v >= projected.v THEN actual.v - projected.v
                  ELSE projected.v - actual.v)
        ELSE NoneV

\* C16: every stored prediction and projection row carries an absolute error
\* that is absent exactly when the projected or the actual value of its raw
\* record is absent or not a number, and is |actual - projected| otherwise, zero
\* values included. A projected or actual value of 0 is falsy in the `or` chain
\* of aliases and is read as absent, so this fails.
C16_AbsoluteErrorOfEveryNumericPair ==
    /\ \A r \in work.pred :
          r.absolute_error = ExpectedError(r.payload,
              <<"projected_ppg", "projection_ppg", "projected_points">>,
              <<"actual_ppg", "actual_points">>)
    /\ \A r \in work.proj :
          r.absolute_error = ExpectedError(r.payload,
              <<"proj_fpts", "projected_fpts">>, <<"actual_fpts">>)

\* rows of the last call whose date is present, and those whose date is absent
Dated(date_of_row) == {i \in 1..Len(call.rows) : date_of_row[i].has}

AccuracyDates == [i \in 1..Len(call.rows) |-> accuracy_date(call.rows[i])]
BacktestDates == [i \in 1..Len(call.rows) |-> backtest_date(call.rows[i])]

\* what upsert_accuracy_rows does with the rows of the call: the undated ones
\* leave no stored row and are not counted, the dated ones are stored
AccuracySkipsUndated ==
    /\ \A r \in work.acc : accuracy_date(r.payload).has
    /\ call.op = "upsert_accuracy_rows" =>
          /\ call.inserted = Cardinality(Dated(AccuracyDates))
          /\ \A i \in Dated(AccuracyDates) :
                \E r \in work.acc : r.game_date = AccuracyDates[i].v

\* C17 as stated: upsert_accuracy_rows and upsert_backtest_rows both skip a row
\* whose date is missing or does not parse. upsert_backtest_rows stores such a
\* row under an absent slate_date and counts it, so this fails.
C17_UndatedRowsSkippedByBoth ==
    /\ AccuracySkipsUndated
    /\ \A t \in {"top3", "port"} : \A r \in work[t] : backtest_date(r.payload).has
    /\ call.op = "upsert_backtest_rows" =>
          /\ call.inserted = Cardinality(Dated(BacktestDates))
          /\ \A i \in Dated(BacktestDates) :
                \E r \in work[call.table] : r.payload = call.rows[i]

\* C17: upsert_accuracy_rows skips a row whose date is missing or does not
\* parse: it stores nothing for it, does not count it, raises nothing and goes on
\* to the remaining rows. upsert_backtest_rows does not skip such a row: it
\* stores it with an absent slate_date, counts it, and goes on.
C17_UndatedRowsSkippedByAccuracyOnly ==
    /\ AccuracySkipsUndated
    /\ \A t \in {"top3", "port"} : \A r \in work[t] : r.slate_date = backtest_date(r.payload)
    /\ call.op = "upsert_backtest_rows" =>
          /\ call.inserted = Len(call.rows)
          /\ \A i \in 1..Len(call.rows) :
                \E r \in work[call.table] : r.payload = call.rows[i]

\* upsert_accuracy_rows passed over an unparseable date and stored the row after
\* it, and an earlier upsert_backtest_rows stored a row without a date
C17_Witness ==
    /\ call.op = "upsert_accuracy_rows"
    /\ Len(call.rows) = 2
    /\ ~AccuracyDates[1].has /\ AccuracyDates[2].has
    /\ call.inserted = 1
    /\ Cardinality(work.acc) = 1
    /\ \E r \in work.top3 : ~r.slate_date.has

----------------------------------------------------------------------------
(* One call of NbaDailyApiClient.get, attempt by attempt *)

\* the largest max_retries a client is configured with
MaxRetriesCfg == 4

GetPaths == {"/dates/predictions", "/dfs/slate-results/2026-01-01"}

Responses ==
    {NetworkFailure,
     HttpResponse(200, TRUE, RowsPayload(<<P1>>), "[...]"),
     HttpResponse(200, FALSE, JNull, "<html>"),
     HttpResponse(300, TRUE, JDict(S1), "{...}"),
     HttpResponse(404, TRUE, JDict(EmptyDict), "Not Found"),
     HttpResponse(500, FALSE, JNull, "upstream said (404)")}

IdlePag ==
    [pc |-> "idle", params |-> NoParams, page_size |-> 0, max_pages |-> 0,
     offset |-> 0, limit |-> 0, i |-> 0, all_rows |-> <<>>,
     \* history: the (offset, limit) of every call of get, and what each returned
     calls |-> <<>>, answers |-> <<>>,
     result |-> [ok |-> FALSE, rows |-> <<>>, exc |-> NoError]]

NoFn == [op |-> "none"]

\* the two callers of run_ingestion, and each one's position: the write it is
\* at, the writes its open transaction holds, and the run_id it was given
Conns == {"a", "b"}

MaxConcFailures == 1

IdleConns ==
    [txn |-> [c \in Conns |-> [phase |-> "idle", p |-> 0, log |-> <<>>, started |-> 0,
                               run_id |-> 0, status |-> "none"]],
     failures |-> MaxConcFailures]

InitGetVars ==
    /\ g = [pc |-> "idle", path |-> "", max_retries |-> DefaultMaxRetries, attempt |-> 0,
            last_error |-> NoError, log |-> <<>>, sleeps |-> <<>>,
            result |-> [ok |-> FALSE, value |-> JNull, exc |-> NoError]]
    /\ pg = IdlePag
    /\ fn = NoFn
    /\ cc = IdleConns

\* get(path, params) is called on a client configured with max_retries
GetCall ==
    /\ g.pc = "idle"
    /\ \E path \in GetPaths, max_retries \in 0..MaxRetriesCfg :
          g' = [g EXCEPT !.pc = IF max_retries >= 1 THEN "attempt" ELSE "after_loop",
                         !.path = path, !.max_retries = max_retries,
                         !.attempt = IF max_retries >= 1 THEN 1 ELSE 0]
    /\ UNCHANGED <<dbVars, runVars, pg, fn, cc>>

\* one pass of the loop body: the HTTP attempt, and what follows it
GetAttempt ==
    /\ g.pc = "attempt"
    /\ \E response \in Responses :
          LET out == attempt_outcome(response) IN
          g' = IF out.ok
               THEN [g EXCEPT !.pc = "returned", !.log = Append(@, response), !.result = out]
               ELSE IF IsLastAttempt(g.attempt, g.max_retries)
               THEN [g EXCEPT !.pc = "after_loop", !.log = Append(@, response),
                              !.last_error = out.exc]
               ELSE [g EXCEPT !.pc = IF g.attempt + 1 <= g.max_retries
                                     THEN "attempt" ELSE "after_loop",
                              !.log = Append(@, response), !.last_error = out.exc,
                              !.sleeps = Append(@, g.attempt),
                              !.attempt = @ + 1]
    /\ UNCHANGED <<dbVars, runVars, pg, fn, cc>>

\* raise ApiClientError(f"GET {path} failed after retries: {last_error}")
GetRaise ==
    /\ g.pc = "after_loop"
    /\ g' = [g EXCEPT !.pc = "raised",
                      !.result = [ok |-> FALSE, value |-> JNull,
                                  exc |-> AfterRetriesError(g.path, g.last_error)]]
    /\ UNCHANGED <<dbVars, runVars, pg, fn, cc>>

NextGet == GetCall \/ GetAttempt \/ GetRaise

----------------------------------------------------------------------------
(* Claims about NbaDailyApiClient.get, checked under SpecGet *)

LastResponse == g.log[Len(g.log)]

\* an attempt that fails: a network-level failure, a status of 400 or above, or
\* a body that does not parse
FailedAttempt(r) == r.kind = "net" \/ r.status >= 400 \/ ~r.parseable

\* the exception an attempt that fails raises
CauseOf(r) ==
    IF r.kind = "net" THEN RequestException
    ELSE IF r.status >= 400 THEN StatusError(r.status, r.text)
    ELSE ValueError

\* C9: get makes at most max_retries attempts; it returns the parsed body of the
\* first successful attempt, which is its last attempt; when every attempt fails
\* it raises ApiClientError after exactly max_retries attempts, carrying the
\* last underlying cause.
C9_AtMostMaxRetriesAttempts ==
    /\ Len(g.log) <= g.max_retries
    /\ g.pc = "returned" =>
          /\ Len(g.log) >= 1
          /\ \A i \in 1..(Len(g.log) - 1) : FailedAttempt(g.log[i])
          /\ ~FailedAttempt(LastResponse)
          /\ g.result.ok /\ g.result.value = LastResponse.json
    /\ g.pc = "raised" =>
          /\ Len(g.log) = g.max_retries
          /\ \A i \in 1..Len(g.log) : FailedAttempt(g.log[i])
          /\ ~g.result.ok
          /\ g.result.exc.type = "ApiClientError"
          /\ g.result.exc.cause = IF Len(g.log) = 0 THEN NoError ELSE CauseOf(LastResponse)

\* a client with the default max_retries has raised after three failed attempts
C9_Witness ==
    /\ g.pc = "raised"
    /\ g.max_retries = DefaultMaxRetries
    /\ Len(g.log) = DefaultMaxRetries
    /\ g.result.exc.cause = StatusError(404, "Not Found")

\* C10 as stated: a response whose status is outside 200-299 is never returned
\* to the caller as a parsed result.
C10_Non2xxNeverReturned ==
    g.pc = "returned" => (LastResponse.status >= 200 /\ LastResponse.status <= 299)

\* C10 as amended: a network-level failure, a response with a status of 400 or
\* above and a response whose body is not parseable each count as a failed
\* attempt, which returns nothing and is followed by another attempt while
\* fewer than max_retries were made; a status below 400 is not a failure.
C10_ErrorStatusNeverReturned ==
    \A i \in 1..Len(g.log) :
        LET r == g.log[i]
            failed == r.kind = "net" \/ r.status >= 400 \/ ~r.parseable
        IN  /\ failed => ~(g.pc = "returned" /\ i = Len(g.log))
            /\ (failed /\ i < g.max_retries) => (Len(g.log) > i \/ g.pc = "attempt")
            /\ ~failed => (g.pc = "returned" /\ i = Len(g.log) /\ g.result.value = r.json)

\* get has returned after a network failure, an error status and an
\* unparseable body
C10_Witness ==
    /\ g.pc = "returned"
    /\ Len(g.log) = 4
    /\ g.log[1].kind = "net"
    /\ g.log[2].kind = "http" /\ g.log[2].status >= 400
    /\ g.log[3].kind = "http" /\ g.log[3].status < 400 /\ ~g.log[3].parseable

----------------------------------------------------------------------------
(* One call of NbaDailyApiClient.paginated_records, page by page *)

\* the largest page_size and max_pages of a call, and the most records on a page
MaxPageSize == 2
MaxPagesCfg == 3
MaxPageRows == 2

\* the records of the page that answers call n: each a record of its own
PageItems(n, k) == [j \in 1..k |-> JDict([x |-> Num(100 * n + 10 * j)])]

\* what get returns for call n: a bare list or a wrapped list of k records, with
\* no count, a count, or a count that is not an integer; a list holding a
\* non-record; a bare object; a string
PageAnswers(n) ==
    UNION {{JList(PageItems(n, k)),
            JWrapped(PageItems(n, k), Null),
            JWrapped(PageItems(n, k), Num(10)),
            JWrapped(PageItems(n, k), Num(30)),
            JWrapped(PageItems(n, k), Num(25))} : k \in 0..MaxPageRows}
    \cup {JList(<<JStr("x")>> \o PageItems(n, 1)),
          JDict([x |-> Num(100 * n)]),
          JDict([x |-> Num(100 * n), count |-> Num(10)]),
          JStr("invalid")}

PagParams ==
    {[offset |-> o, limit |-> l] : o \in {NoneV, Some(1)}, l \in {NoneV, Some(1)}}

\* paginated_records(path, params, page_size, max_pages) is called: lines 72-75
PagCall ==
    /\ pg.pc = "idle"
    /\ \E params \in PagParams, page_size \in 1..MaxPageSize, max_pages \in 0..MaxPagesCfg :
          pg' = [IdlePag EXCEPT !.pc = "loop", !.params = params, !.page_size = page_size,
                                !.max_pages = max_pages, !.offset = StartOffset(params),
                                !.limit = Limit(params, page_size)]
    /\ UNCHANGED <<dbVars, runVars, g, fn, cc>>

\* one pass of the loop, lines 77-90: get returns a payload, or raises
PagPass ==
    /\ pg.pc = "loop"
    /\ InRange(pg.i, pg.max_pages)
    /\ LET n == Len(pg.calls) + 1
           called == [pg EXCEPT !.calls = Append(@, [offset |-> pg.offset, limit |-> pg.limit])]
       IN  \E ok \in BOOLEAN :
              IF ok
              THEN \E payload \in PageAnswers(n) :
                      LET a == after_page(payload, pg.all_rows, pg.offset, pg.limit) IN
                      pg' = [called EXCEPT !.answers = Append(@, payload),
                                           !.all_rows = a.all_rows, !.offset = a.offset,
                                           !.i = @ + 1,
                                           !.pc = IF a.stop THEN "return" ELSE "loop"]
              ELSE LET r == get_error(pg.all_rows,
                                      AfterRetriesError("/predictions", RequestException))
                   IN  pg' = [called EXCEPT !.result = r,
                                            !.pc = IF r.ok THEN "returned" ELSE "raised"]
    /\ UNCHANGED <<dbVars, runVars, g, fn, cc>>

\* line 92: return all_rows, after a break or after max_pages passes
PagReturn ==
    /\ pg.pc = "return" \/ (pg.pc = "loop" /\ ~InRange(pg.i, pg.max_pages))
    /\ pg' = [pg EXCEPT !.pc = "returned",
                        !.result = [ok |-> TRUE, rows |-> pg.all_rows, exc |-> NoError]]
    /\ UNCHANGED <<dbVars, runVars, g, fn, cc>>

NextPag == PagCall \/ PagPass \/ PagReturn

----------------------------------------------------------------------------
(* Claims about one call of paginated_records, under SpecPag *)

RECURSIVE Concat(_)
Concat(seqs) == IF seqs = <<>> THEN <<>> ELSE Head(seqs) \o Concat(Tail(seqs))

\* the records of every page the call has fetched, in the order fetched
PagesFetched == [n \in 1..Len(pg.answers) |-> records(pg.answers[n])]

\* page n ends the pagination, for a call made with this limit
EndsPagination(n, limit) ==
    LET payload == pg.answers[n]
        received == Len(records(payload))
    IN  \/ received = 0
        \/ HasCount(payload) /\ pg.calls[n].offset + received >= CountOf(payload)
        \/ received < limit

\* C11: whatever pages the source answers with, paginated_records calls get at
\* most max_pages times, and what it returns is the concatenation, in order, of
\* the records of every page it fetched.
C11_AtMostMaxPagesCallsAndConcatenation ==
    /\ Len(pg.calls) <= pg.max_pages
    /\ pg.pc = "returned" => /\ pg.result.ok
                             /\ pg.result.rows = Concat(PagesFetched)

\* max_pages full pages were fetched, none of them ending the pagination, and
\* the call returned what it had
C11_Witness ==
    /\ pg.pc = "returned"
    /\ pg.max_pages = MaxPagesCfg
    /\ Len(pg.answers) = pg.max_pages
    /\ \A n \in 1..Len(pg.answers) : ~EndsPagination(n, pg.limit)
    /\ Len(pg.result.rows) >= pg.max_pages

\* every call carries this limit, the first the starting offset and each later
\* one the offset of the call before plus the records that call received, and
\* no call follows a page that ends the pagination
CallsFollowPolicy(limit) ==
    /\ \A n \in 1..Len(pg.calls) : pg.calls[n].limit = limit
    /\ Len(pg.calls) >= 1 => pg.calls[1].offset = StartOffset(pg.params)
    /\ \A n \in 1..(Len(pg.calls) - 1) :
          /\ pg.calls[n + 1].offset = pg.calls[n].offset + Len(records(pg.answers[n]))
          /\ ~EndsPagination(n, limit)

\* C12 as stated: every call carries limit = page_size, a page shorter than
\* page_size being the last. A caller that puts "limit" into params is served
\* with that limit, so this fails.
C12_LimitIsPageSize == CallsFollowPolicy(pg.page_size)

\* C12: every call carries the limit the caller put into params, or page_size
\* when it put none; the offset starts at the caller's offset, or 0, and grows by
\* the records received; no call follows the first page that is empty, or whose
\* integer count is reached, or that holds fewer records than that limit.
C12_LimitIsCallersOrPageSize == CallsFollowPolicy(Limit(pg.params, pg.page_size))

\* pages of 2 and 1 records with page_size 2 and no limit in params: 3 records
\* in exactly 2 calls, the short page being the last
C12_Witness ==
    /\ pg.pc = "returned"
    /\ ~pg.params.limit.has /\ pg.page_size = 2 /\ pg.max_pages = MaxPagesCfg
    /\ Len(pg.calls) = 2
    /\ Len(records(pg.answers[1])) = 2 /\ Len(records(pg.answers[2])) = 1
    /\ ~HasCount(pg.answers[1]) /\ ~HasCount(pg.answers[2])
    /\ Len(pg.result.rows) = 3

\* C13: when a call of get raises, paginated_records raises that error in the
\* same step, hands its caller no rows, and calls get no more.
C13_FailedPagePropagatesAtOnce ==
    [][/\ (Len(pg'.calls) > Len(pg.calls) /\ Len(pg'.answers) = Len(pg.answers))
            => (/\ pg'.pc = "raised"
                /\ ~pg'.result.ok
                /\ pg'.result.rows = <<>>
                /\ pg'.result.exc = AfterRetriesError("/predictions", RequestException))
        /\ (pg.pc = "raised" => pg' = pg)]_vars

\* a page fetch raised after earlier pages of the call had brought records
C13_Witness ==
    /\ pg.pc = "raised"
    /\ Len(pg.answers) >= 1
    /\ pg.all_rows # <<>>
    /\ pg.result.rows = <<>>

----------------------------------------------------------------------------
(* One call of a function without side effects: filter_dates, records *)

\* the longest list handed to filter_dates
MaxValues == 3

\* the strings a date endpoint can list: dates, a timestamp, an empty string, and
\* the str() of a null
DateStrings ==
    {"2026-01-01", "2026-01-02", "2026-01-03", "2026-01-01T09:30:00", "", "None"}

DateLists == UNION {[1..n -> DateStrings] : n \in 0..MaxValues}

OptionalDays == {NoneV} \cup {Some(d) : d \in Days}

Lookbacks == {NoneV, Some(0), Some(1)}

\* filter_dates(date_values, start_date, end_date, lookback_days) on a day today
CallFilterDates ==
    /\ fn.op = "none"
    /\ \E values \in DateLists, start_date \in OptionalDays, end_date \in OptionalDays,
          lookback_days \in Lookbacks, today \in Days :
          fn' = [op |-> "filter_dates", values |-> values, start_date |-> start_date,
                 end_date |-> end_date, lookback_days |-> lookback_days, today |-> today,
                 result |-> filter_dates(values, start_date, end_date, lookback_days, today)]
    /\ UNCHANGED <<dbVars, runVars, g, pg, cc>>

\* the longest list inside a payload handed to records
MaxItems == 3

\* what a list of a payload can hold: objects, a string, a null, a list
ListItems ==
    {JDict([x |-> Num(10)]), JDict([x |-> Num(20)]), JStr("x"), JNull, JList(<<>>)}

ItemLists == UNION {[1..n -> ListItems] : n \in 0..MaxItems}

\* the payloads of every shape: bare lists, {"data": [...]} with and without a
\* count, bare objects (one of them with a "data" that is no list), a string, null
RecordsPayloads ==
    {JList(items) : items \in ItemLists}
    \cup {JWrapped(items, count) : items \in ItemLists, count \in {Null, Num(10)}}
    \cup {JDict([x |-> Num(10)]), JDict([data |-> Str("x")]), JDict(EmptyDict),
          JStr("invalid"), JNull}

\* NbaDailyApiClient.records(payload)
CallRecords ==
    /\ fn.op = "none"
    /\ \E payload \in RecordsPayloads :
          fn' = [op |-> "records", payload |-> payload, result |-> records(payload)]
    /\ UNCHANGED <<dbVars, runVars, g, pg, cc>>

\* what a dates endpoint can list: date strings, a timestamp, a null
DateItems ==
    {JStr("2026-01-01"), JStr("2026-01-02"), JStr("2026-01-01T09:30:00"), JNull}

\* the payloads handed to date_values: bare and wrapped lists, objects without a
\* data list, a string, null
DatePayloads ==
    LET lists == UNION {[1..n -> DateItems] : n \in 0..MaxItems} IN
    {JList(items) : items \in lists}
    \cup {JWrapped(items, count) : items \in lists, count \in {Null, Num(20)}}
    \cup {JDict([x |-> Num(10)]), JDict([data |-> Str("2026-01-01")]), JDict(EmptyDict),
          JStr("2026-01-01"), JNull}

\* NbaDailyApiClient.date_values(payload)
CallDateValues ==
    /\ fn.op = "none"
    /\ \E payload \in DatePayloads :
          fn' = [op |-> "date_values", payload |-> payload, result |-> date_values(payload)]
    /\ UNCHANGED <<dbVars, runVars, g, pg, cc>>

NextFn == CallFilterDates \/ CallRecords \/ CallDateValues

----------------------------------------------------------------------------
(* Claims about filter_dates and records, under SpecFn *)

\* the dates among the values handed to filter_dates: the empty strings left
\* out, a timestamp counted by its date
InputDates ==
    {d \in Days : \E i \in 1..Len(fn.values) :
        fn.values[i] = isoformat(d) \/ First10(fn.values[i]) = isoformat(d)}

FilterDatesReturned == fn.op = "filter_dates" /\ fn.result.ok

\* the lower bound of the call: the explicit start date, else today minus the
\* lookback, else none
LowerBound ==
    IF fn.start_date.has THEN fn.start_date
    ELSE IF fn.lookback_days.has THEN Some(fn.today - fn.lookback_days.v)
    ELSE NoneV

\* C14: the list filter_dates returns is strictly ascending, so free of
\* duplicates, and holds exactly the distinct input dates that are not before
\* the lower bound, when there is one, and not after the end date, when there is
\* one; for an empty input it is empty whatever the bounds.
C14_AscendingDistinctWithinBounds ==
    FilterDatesReturned =>
        LET dates == fn.result.dates IN
        /\ \A i \in 1..(Len(dates) - 1) : dates[i] < dates[i + 1]
        /\ {dates[i] : i \in 1..Len(dates)} =
              {d \in InputDates : /\ (~LowerBound.has \/ d >= LowerBound.v)
                                  /\ (~fn.end_date.has \/ d <= fn.end_date.v)}
        /\ fn.values = <<>> => dates = <<>>

\* three dates given out of order and one of them twice, with start and end both
\* on the middle one: exactly that date comes back
C14_Witness ==
    /\ FilterDatesReturned
    /\ InputDates = Days /\ Len(fn.values) = MaxValues
    /\ fn.values[1] = isoformat(3)
    /\ fn.start_date = Some(2) /\ fn.end_date = Some(2)
    /\ fn.result.dates = <<2>>

\* C15: with an explicit start date the result is bounded below by it whatever
\* the lookback; without one but with a lookback it is bounded below by today
\* minus the lookback; with neither it has no lower bound.
C15_LookbackOnlyWithoutStart ==
    FilterDatesReturned =>
        LET dates == {fn.result.dates[i] : i \in 1..Len(fn.result.dates)}
            upto_end == {d \in InputDates : ~fn.end_date.has \/ d <= fn.end_date.v}
        IN  /\ fn.start_date.has => dates = {d \in upto_end : d >= fn.start_date.v}
            /\ (~fn.start_date.has /\ fn.lookback_days.has) =>
                  dates = {d \in upto_end : d >= fn.today - fn.lookback_days.v}
            /\ (~fn.start_date.has /\ ~fn.lookback_days.has) => dates = upto_end

\* an explicit start date earlier than today minus the lookback: a date before
\* the lookback window is kept
C15_Witness ==
    /\ FilterDatesReturned
    /\ fn.start_date = Some(1) /\ fn.lookback_days = Some(0) /\ fn.today = 3
    /\ ~fn.end_date.has
    /\ fn.result.dates = <<1, 2, 3>>

\* the objects among the items of a list, in the order of the list
RECURSIVE ObjectsOf(_)
ObjectsOf(items) ==
    IF items = <<>> THEN <<>>
    ELSE (IF Head(items).k = "dict" THEN <<Head(items).d>> ELSE <<>>) \o ObjectsOf(Tail(items))

\* C20: records returns the objects of the data list of a wrapped payload, in
\* order, and not the wrapping object; the objects of a bare list, in order; the
\* object itself for any other bare object; nothing for every other shape.
C20_RecordsOfEveryShape ==
    fn.op = "records" =>
        LET payload == fn.payload IN
        /\ payload.k = "wrapped" => fn.result = ObjectsOf(payload.items)
        /\ payload.k = "list" => fn.result = ObjectsOf(payload.items)
        /\ payload.k = "dict" => fn.result = <<payload.d>>
        /\ payload.k \notin {"wrapped", "list", "dict"} => fn.result = <<>>

\* a wrapped list that holds two objects around a string: the two objects come
\* back, in order
C20_Witness ==
    /\ fn.op = "records"
    /\ fn.payload.k = "wrapped"
    /\ Len(fn.payload.items) = 3
    /\ fn.payload.items[2].k = "str"
    /\ fn.result = <<[x |-> Num(20)], [x |-> Num(10)]>>

\* C21: date_values returns, for a wrapped payload or a bare list, one string
\* per item of the list, in the order of the list, each date string being the
\* item itself; for every other shape it returns the empty list.
C21_DateStringsUnchangedInOrder ==
    fn.op = "date_values" =>
        LET payload == fn.payload IN
        IF payload.k \in {"wrapped", "list"}
        THEN /\ Len(fn.result) = Len(payload.items)
             /\ \A i \in 1..Len(payload.items) :
                   payload.items[i].k = "str" => fn.result[i] = payload.items[i].s
        ELSE fn.result = <<>>

\* a wrapped list of two date strings, the later one first: both come back as
\* they are, in that order
C21_Witness ==
    /\ fn.op = "date_values"
    /\ fn.payload.k = "wrapped"
    /\ fn.payload.items = <<JStr("2026-01-02"), JStr("2026-01-01")>>
    /\ fn.result = <<"2026-01-02", "2026-01-01">>

----------------------------------------------------------------------------
(* run_ingestion against a remote source: ingestion.py lines 70-145 *)

\* Settings defaults: config.py
Settings ==
    [source_api_page_size |-> 500, ingestion_max_page_size |-> 1000,
     ingestion_default_lookback_days |-> 45]

\* date.today()
Today == Len(IsoDates)

AllDays(v) == [d \in Days |-> v]

\* What the source serves: the three date lists, the rows per date of the
\* paginated endpoints, the accuracy summary, the slate results per date and
\* the dates for which it has no slate results (it answers those with 404)
SourceA ==
    [pred_dates |-> JList(<<JStr("2026-01-01")>>),
     dfs_dates |-> JWrapped(<<JStr("2026-01-01"), JStr("2026-01-02")>>, Num(20)),
     bt_dates |-> JList(<<JStr("2026-01-01T09:30:00")>>),
     pred |-> [AllDays(<<>>) EXCEPT ![1] = <<P1>>],
     acc |-> JWrapped(<<JDict(A1)>>, Num(10)),
     slate |-> [AllDays(JNull) EXCEPT ![2] = JDict(S1)],
     slate_missing |-> {1},
     proj |-> [AllDays(<<>>) EXCEPT ![1] = <<J1>>],
     top3 |-> [AllDays(<<>>) EXCEPT ![1] = <<B1>>],
     port |-> [AllDays(<<>>) EXCEPT ![1] = <<B3>>]]

\* SourceA after the source revised a projection, published the missing slate
\* and emptied the other slate object
SourceB ==
    [SourceA EXCEPT !.pred = [AllDays(<<>>) EXCEPT ![1] = <<P2>>],
                    !.slate = [AllDays(JNull) EXCEPT ![1] = JDict(S2), ![2] = JDict(EmptyDict)],
                    !.slate_missing = {}]

Sources == {SourceA, SourceB}

\* the date bounds run_ingestion is called with
RunBounds ==
    {[start_date |-> NoneV, end_date |-> NoneV],
     [start_date |-> Some(2), end_date |-> NoneV]}

\* how many times run_ingestion is called, one call after the other (SpecRerun)
MaxRuns == 2

\* how many steps of a call may fail (Spec)
MaxFaults == 2

\* the answers of the source to the successive attempts of one get: the answer it
\* has ("ok"), or an outage of one kind lasting through every attempt
FetchScripts == IF faults > 0 THEN {"ok", "net", "404", "500"} ELSE {"ok"}

Answers(script, answer) ==
    LET r == IF script = "ok" THEN answer
             ELSE IF script = "net" THEN NetworkFailure
             ELSE IF script = "404" THEN HttpResponse(404, TRUE, JDict(EmptyDict), "Not Found")
             ELSE HttpResponse(500, FALSE, JNull, "upstream said (404)")
    IN  [a \in 1..DefaultMaxRetries |-> r]

Ok200(payload) == HttpResponse(200, TRUE, payload, "")

\* the source's answer for the slate results of a date
SlateAnswer(d) ==
    IF d \in source.slate_missing
    THEN HttpResponse(404, TRUE, JDict(EmptyDict), "Not Found")
    ELSE Ok200(source.slate[d])

\* whether a step on the connection fails
Faults == IF faults > 0 THEN BOOLEAN ELSE {FALSE}

\* psycopg.Error raised by the named call on the connection
DbError(what) == [type |-> "psycopg.Error", status |-> 0, detail |-> what]
\* the error raised by client.close()
SessionError == [type |-> "RequestException", status |-> 0, detail |-> "close"]
\* AttributeError: 'list' object has no attribute 'get'
AttributeError == [type |-> "AttributeError", status |-> 0, detail |-> "get"]

NoResult == [kind |-> "none", stats |-> EmptyDict, exc |-> NoError]
NoMessage == [kind |-> "null", text |-> "", exc |-> NoError]
TextMessage(text) == [kind |-> "text", text |-> text, exc |-> NoError]
\* str(exc)
ExcMessage(exc) == [kind |-> "exc", text |-> "", exc |-> exc]

IdleRun ==
    [pc |-> "idle", start_date |-> NoneV, end_date |-> NoneV, page_size |-> 0,
     lookback_days |-> 0, stats |-> EmptyStats, run_id |-> NoneV,
     prediction_dates |-> <<>>, dfs_dates |-> <<>>, backtest_dates |-> <<>>,
     i |-> 0, payload |-> JNull, rows |-> <<>>, raised |-> FALSE, exc |-> NoError,
     session |-> "none", conn |-> "none", result |-> NoResult,
     \* history
     fetched |-> NoError, failed_at |-> "", cause |-> NoError, not_found |-> {},
     row_updates |-> 0, commit_done |-> FALSE, base |-> EmptyTables]

NoHist ==
    [left |-> 0, prev_ok |-> FALSE, prev_source |-> SourceA,
     prev_bounds |-> [start_date |-> NoneV, end_date |-> NoneV]]

InitRunVars ==
    /\ source = SourceA
    /\ run = IdleRun
    /\ faults = 0
    /\ hist = NoHist

\* begin_run: INSERT INTO ingestion_runs DEFAULT VALUES RETURNING run_id
begin_run(runs, now) ==
    LET run_id == Cardinality(runs) + 1
    IN  [runs |-> runs \cup {[run_id |-> run_id, started_at |-> now, completed_at |-> NoneV,
                              status |-> "running", message |-> NoMessage,
                              stats |-> EmptyDict]},
         run_id |-> run_id]

\* finish_run: UPDATE ingestion_runs SET completed_at, status, message, stats
\*             WHERE run_id = %s
finish_run(runs, run_id, status, message, stats, now) ==
    {IF r.run_id = run_id
     THEN [r EXCEPT !.completed_at = Some(now), !.status = status,
                    !.message = message, !.stats = stats]
     ELSE r : r \in runs}

\* conn.commit() leaves the connection's writes uncommitted
CommitNothing(stored, pending) == stored

\* conn.commit(): the connection's writes become the committed tables
Commit(stored, pending) == pending

\* the row of the current run in the committed ledger
RunRow == CHOOSE r \in committed.runs : r.run_id = run.run_id.v

Bounds(r) == [start_date |-> r.start_date, end_date |-> r.end_date]

\* an exception raised inside the try block enters the except clause
Raised(r, exc) ==
    [r EXCEPT !.pc = "rollback", !.raised = TRUE, !.exc = exc, !.failed_at = r.pc,
              !.cause = exc]

Raise(exc) == run' = Raised(run, exc)

\* the loops of lines 98-133 in order: where control goes when a loop has no
\* (more) dates
StartBacktests(r) ==
    IF r.backtest_dates # <<>> THEN [r EXCEPT !.pc = "top3_fetch", !.i = 1]
    ELSE [r EXCEPT !.pc = "commit"]

StartDfs(r) ==
    IF r.dfs_dates # <<>> THEN [r EXCEPT !.pc = "slate_fetch", !.i = 1]
    ELSE StartBacktests(r)

StartPredictions(r) ==
    IF r.prediction_dates # <<>> THEN [r EXCEPT !.pc = "pred_fetch", !.i = 1]
    ELSE StartDfs(r)

\* lines 79-86: run_ingestion is called; the client and its session are created
RunStart ==
    /\ run.pc \in {"idle", "done"}
    /\ hist.left > 0
    /\ \E b \in RunBounds, s \in Sources :
          /\ source' = s
          /\ run' = [IdleRun EXCEPT !.pc = "connect",
                        !.start_date = b.start_date, !.end_date = b.end_date,
                        !.page_size = IF Settings.source_api_page_size
                                         < Settings.ingestion_max_page_size
                                      THEN Settings.source_api_page_size
                                      ELSE Settings.ingestion_max_page_size,
                        !.lookback_days = Settings.ingestion_default_lookback_days,
                        !.session = "open", !.base = committed]
    /\ hist' = [left |-> hist.left - 1, prev_ok |-> run.result.kind = "returned",
                prev_source |-> source, prev_bounds |-> Bounds(run)]
    /\ UNCHANGED <<dbVars, getVars, faults>>

\* line 89: conn = db.connect(...), before the try block
Connect ==
    /\ run.pc = "connect"
    /\ \E fault \in Faults :
          IF fault
          THEN /\ run' = [run EXCEPT !.pc = "done", !.raised = TRUE, !.exc = DbError("connect"),
                              !.result = [kind |-> "raised", stats |-> EmptyDict,
                                          exc |-> DbError("connect")]]
               /\ faults' = faults - 1
               /\ UNCHANGED work
          ELSE /\ run' = [run EXCEPT !.pc = "initialize_schema", !.conn = "open"]
               /\ work' = committed
               /\ UNCHANGED faults
    /\ UNCHANGED <<committed, clock, seq, call, repeats, getVars, source, hist>>

\* line 91: db.initialize_schema(conn); CREATE ... IF NOT EXISTS, then commit
InitializeSchema ==
    /\ run.pc = "initialize_schema"
    /\ \E fault \in Faults :
          IF fault
          THEN Raise(DbError("initialize_schema")) /\ faults' = faults - 1 /\ UNCHANGED clock
          ELSE /\ run' = [run EXCEPT !.pc = "begin_run"]
               /\ clock' = clock + 1
               /\ UNCHANGED faults
    /\ UNCHANGED <<committed, work, seq, call, repeats, getVars, source, hist>>

\* line 92: run_id = db.begin_run(conn); the new row is committed at once
BeginRun ==
    /\ run.pc = "begin_run"
    /\ \E fault \in Faults :
          IF fault
          THEN /\ Raise(DbError("begin_run")) /\ faults' = faults - 1
               /\ UNCHANGED <<committed, work, clock>>
          ELSE LET b == begin_run(committed.runs, clock) IN
               /\ committed' = [committed EXCEPT !.runs = b.runs]
               /\ work' = [work EXCEPT !.runs = b.runs]
               /\ run' = [run EXCEPT !.pc = "prediction_dates", !.run_id = Some(b.run_id)]
               /\ clock' = clock + 1
               /\ UNCHANGED faults
    /\ UNCHANGED <<seq, call, repeats, getVars, source, hist>>

\* one of lines 94-96: fetch a date list, then filter it; the loops follow the
\* last of the three
DatesStep(pc, path, payload, field, nextpc) ==
    /\ run.pc = pc
    /\ \E script \in FetchScripts :
          LET out == get(path, Answers(script, Ok200(payload)), DefaultMaxRetries)
              f == filter_dates(date_values(out.value), run.start_date, run.end_date,
                                Some(run.lookback_days), Today)
              r == [run EXCEPT !.fetched = out.exc]
          IN  /\ faults' = IF script = "ok" THEN faults ELSE faults - 1
              /\ run' = IF ~out.ok THEN Raised(r, out.exc)
                        ELSE IF ~f.ok THEN Raised(r, ValueError)
                        ELSE IF nextpc = "loops"
                        THEN StartPredictions([r EXCEPT ![field] = f.dates])
                        ELSE [r EXCEPT ![field] = f.dates, !.pc = nextpc]
    /\ UNCHANGED <<dbVars, getVars, source, hist>>

FetchPredictionDates ==
    DatesStep("prediction_dates", "/dates/predictions", source.pred_dates,
              "prediction_dates", "dfs_dates")

FetchDfsDates ==
    DatesStep("dfs_dates", "/dates/dfs", source.dfs_dates,
              "dfs_dates", "backtest_dates")

FetchBacktestDates ==
    DatesStep("backtest_dates", "/dates/backtests", source.bt_dates,
              "backtest_dates", "loops")

\* the page of a row list that the source serves at an offset
Page(rows, offset, limit) ==
    SubSeq(rows, offset + 1, IF offset + limit < Len(rows) THEN offset + limit ELSE Len(rows))

\* client.paginated_records(path, params, page_size=page_size)
RowsStep(pc, path, rows, nextpc) ==
    /\ run.pc = pc
    /\ \E script \in FetchScripts :
          LET fetch == [o \in 0..Len(rows) |->
                           get(path, Answers(script, Ok200(RowsPayload(Page(rows, o, run.page_size)))),
                               DefaultMaxRetries)]
              p == paginated_records(fetch, NoParams, run.page_size, 500)
              r == [run EXCEPT !.fetched = p.exc]
          IN  /\ faults' = IF script = "ok" THEN faults ELSE faults - 1
              /\ run' = IF ~p.ok THEN Raised(r, p.exc)
                        ELSE [r EXCEPT !.pc = nextpc, !.rows = p.rows,
                                       !.payload = RowsPayload(p.rows)]
    /\ UNCHANGED <<dbVars, getVars, source, hist>>

\* db.store_raw_snapshot(conn, endpoint, snapshot_date, payload)
SnapshotStep(pc, endpoint, snapshot_date, nextpc) ==
    /\ run.pc = pc
    /\ \E fault \in Faults :
          IF fault
          THEN Raise(DbError("store_raw_snapshot")) /\ faults' = faults - 1
               /\ UNCHANGED <<work, seq>>
          ELSE /\ work' = [work EXCEPT !.snap = store_raw_snapshot(@, endpoint, snapshot_date,
                                                    run.payload, seq + 1, clock)]
               /\ seq' = seq + 1
               /\ run' = [run EXCEPT !.pc = nextpc]
               /\ UNCHANGED faults
    /\ UNCHANGED <<committed, clock, call, repeats, getVars, source, hist>>

\* stats.<counter> += db.upsert_...(conn, ...), then control goes on as in after
UpsertStep(pc, table, done, counter, after) ==
    /\ run.pc = pc
    /\ \E fault \in Faults :
          IF fault
          THEN Raise(DbError(pc)) /\ faults' = faults - 1 /\ UNCHANGED work
          ELSE /\ work' = [work EXCEPT ![table] = done.tbl]
               /\ run' = [after EXCEPT !.stats[counter] = @ + done.inserted]
               /\ UNCHANGED faults
    /\ UNCHANGED <<committed, clock, seq, call, repeats, getVars, source, hist>>

\* the loop goes round again on the date it has just processed
NextDateSameDate(r, dates, firstpc, after) ==
    IF r.i < Len(dates) THEN [r EXCEPT !.pc = firstpc] ELSE after

\* for ... in dates: the next date of the loop, or what follows the loop
NextDate(r, dates, firstpc, after) ==
    IF r.i < Len(dates) THEN [r EXCEPT !.pc = firstpc, !.i = @ + 1] ELSE after

game_date == run.prediction_dates[run.i]
slate_date == run.dfs_dates[run.i]
bt_date == run.backtest_dates[run.i]

\* lines 98-101
FetchPredictions ==
    RowsStep("pred_fetch", "/predictions", source.pred[game_date], "pred_snapshot")

StorePredictionSnapshot ==
    SnapshotStep("pred_snapshot", "/predictions", Some(game_date), "upsert_prediction_rows")

UpsertPredictions ==
    UpsertStep("upsert_prediction_rows", "pred",
               upsert_prediction_rows(work.pred, game_date, run.rows, clock), "prediction_rows",
               NextDate(run, run.prediction_dates, "pred_fetch", [run EXCEPT !.pc = "acc_fetch"]))

\* lines 104-108: the accuracy summary over the span of the prediction dates
FetchAccuracy ==
    /\ run.pc = "acc_fetch"
    /\ \E script \in FetchScripts :
          LET out == get("/accuracy/daily-summary", Answers(script, Ok200(source.acc)),
                         DefaultMaxRetries)
              r == [run EXCEPT !.fetched = out.exc]
          IN  /\ faults' = IF script = "ok" THEN faults ELSE faults - 1
              /\ run' = IF ~out.ok THEN Raised(r, out.exc)
                        ELSE [r EXCEPT !.pc = "acc_snapshot", !.payload = out.value,
                                       !.rows = records(out.value)]
    /\ UNCHANGED <<dbVars, getVars, source, hist>>

\* line 109
StoreAccuracySnapshot ==
    SnapshotStep("acc_snapshot", "/accuracy/daily-summary", NoneV, "upsert_accuracy_rows")

\* line 110
UpsertAccuracy ==
    UpsertStep("upsert_accuracy_rows", "acc", upsert_accuracy_rows(work.acc, run.rows, clock),
               "accuracy_rows", StartDfs(run))

\* lines 113-114: slate_payload = _get_or_none(...); if slate_payload:
FetchSlate ==
    /\ run.pc = "slate_fetch"
    /\ \E script \in FetchScripts :
          LET raw == get("/dfs/slate-results/" \o isoformat(slate_date),
                         Answers(script, SlateAnswer(slate_date)), DefaultMaxRetries)
              out == get_or_none(raw)
              r == [run EXCEPT !.fetched = raw.exc,
                               !.not_found = IF FinalStatus(raw.exc) = 404
                                             THEN @ \cup {slate_date} ELSE @]
          IN  /\ faults' = IF script = "ok" THEN faults ELSE faults - 1
              /\ run' = IF ~out.ok THEN Raised(r, out.exc)
                        ELSE IF PayloadTruthy(out.value)
                        THEN [r EXCEPT !.pc = "slate_snapshot", !.payload = out.value]
                        ELSE [r EXCEPT !.pc = "proj_fetch", !.payload = out.value]
    /\ UNCHANGED <<dbVars, getVars, source, hist>>

\* line 115: the endpoint is the literal text, not the path of the date
StoreSlateSnapshot ==
    SnapshotStep("slate_snapshot", "/dfs/slate-results/{slate_date}", Some(slate_date),
                 "upsert_dfs_slate_row")

\* line 116: row.get(...) raises AttributeError on a payload that is not an object
UpsertSlate ==
    IF run.pc = "upsert_dfs_slate_row" /\ run.payload.k \notin {"dict", "wrapped"}
    THEN Raise(AttributeError) /\ UNCHANGED <<dbVars, getVars, source, faults, hist>>
    ELSE UpsertStep("upsert_dfs_slate_row", "slate",
                    upsert_dfs_slate_row(work.slate, slate_date, run.payload.d, clock),
                    "dfs_slate_rows", [run EXCEPT !.pc = "proj_fetch"])

\* lines 118-123
FetchProjections ==
    RowsStep("proj_fetch", "/dfs/projections/" \o isoformat(slate_date),
             source.proj[slate_date], "proj_snapshot")

StoreProjectionSnapshot ==
    SnapshotStep("proj_snapshot", "/dfs/projections", Some(slate_date),
                 "upsert_dfs_projection_rows")

UpsertProjections ==
    UpsertStep("upsert_dfs_projection_rows", "proj",
               upsert_dfs_projection_rows(work.proj, slate_date, run.rows, clock),
               "dfs_projection_rows",
               NextDate(run, run.dfs_dates, "slate_fetch", StartBacktests(run)))

\* lines 127-129
FetchTop3 ==
    RowsStep("top3_fetch", "/backtest/top3", source.top3[bt_date], "top3_snapshot")

StoreTop3Snapshot ==
    SnapshotStep("top3_snapshot", "/backtest/top3", Some(bt_date), "upsert_top3_rows")

UpsertTop3 ==
    UpsertStep("upsert_top3_rows", "top3",
               upsert_backtest_rows(work.top3, "backtest_top3_daily", run.rows, clock),
               "backtest_top3_rows", [run EXCEPT !.pc = "port_fetch"])

\* lines 131-133
FetchPortfolio ==
    RowsStep("port_fetch", "/backtest/portfolio", source.port[bt_date], "port_snapshot")

StorePortfolioSnapshot ==
    SnapshotStep("port_snapshot", "/backtest/portfolio", Some(bt_date), "upsert_portfolio_rows")

UpsertPortfolio ==
    UpsertStep("upsert_portfolio_rows", "port",
               upsert_backtest_rows(work.port, "backtest_portfolio_daily", run.rows, clock),
               "backtest_portfolio_rows",
               NextDate(run, run.backtest_dates, "top3_fetch", [run EXCEPT !.pc = "commit"]))

\* line 135: conn.commit()
CommitRun ==
    /\ run.pc = "commit"
    /\ \E fault \in Faults :
          IF fault
          THEN Raise(DbError("commit")) /\ faults' = faults - 1 /\ UNCHANGED <<committed, clock>>
          ELSE /\ committed' = Commit(committed, work)
               /\ clock' = clock + 1
               /\ run' = [run EXCEPT !.pc = "finish_run_success", !.commit_done = TRUE]
               /\ UNCHANGED faults
    /\ UNCHANGED <<work, seq, call, repeats, getVars, source, hist>>

\* lines 136-137: db.finish_run(conn, run_id, "success", ...); return stats.as_dict()
FinishRunSuccess ==
    /\ run.pc = "finish_run_success"
    /\ \E fault \in Faults :
          IF fault
          THEN /\ Raise(DbError("finish_run")) /\ faults' = faults - 1
               /\ UNCHANGED <<committed, work, clock>>
          ELSE LET runs == finish_run(committed.runs, run.run_id.v, "success",
                                      TextMessage("Ingestion completed."),
                                      as_dict(run.stats), clock) IN
               /\ committed' = [committed EXCEPT !.runs = runs]
               /\ work' = [work EXCEPT !.runs = runs]
               /\ clock' = clock + 1
               /\ run' = [run EXCEPT !.pc = "client_close", !.row_updates = @ + 1,
                              !.result = [kind |-> "returned", stats |-> as_dict(run.stats),
                                          exc |-> NoError]]
               /\ UNCHANGED faults
    /\ UNCHANGED <<seq, call, repeats, getVars, source, hist>>

\* line 139: conn.rollback(); an exception raised here leaves the except clause
\* at once, so lines 140-141 are not reached
Rollback ==
    /\ run.pc = "rollback"
    /\ \E fault \in Faults :
          IF fault
          THEN /\ run' = [run EXCEPT !.pc = "client_close", !.exc = DbError("rollback")]
               /\ faults' = faults - 1
               /\ UNCHANGED <<work, clock>>
          ELSE /\ work' = committed
               /\ clock' = clock + 1
               /\ run' = [run EXCEPT !.pc = IF run.run_id.has THEN "finish_run_failed"
                                            ELSE "client_close"]
               /\ UNCHANGED faults
    /\ UNCHANGED <<committed, seq, call, repeats, getVars, source, hist>>

\* lines 140-142: db.finish_run(conn, run_id, "failed", str(exc), ...); raise
FinishRunFailed ==
    /\ run.pc = "finish_run_failed"
    /\ \E fault \in Faults :
          IF fault
          THEN /\ run' = [run EXCEPT !.pc = "client_close", !.exc = DbError("finish_run")]
               /\ faults' = faults - 1
               /\ UNCHANGED <<committed, work, clock>>
          ELSE LET runs == finish_run(committed.runs, run.run_id.v, "failed",
                                      ExcMessage(run.exc), as_dict(run.stats), clock) IN
               /\ committed' = [committed EXCEPT !.runs = runs]
               /\ work' = [work EXCEPT !.runs = runs]
               /\ clock' = clock + 1
               /\ run' = [run EXCEPT !.pc = "client_close", !.row_updates = @ + 1]
               /\ UNCHANGED faults
    /\ UNCHANGED <<seq, call, repeats, getVars, source, hist>>

\* what run_ingestion leaves the caller with when it exits
Exit(r) ==
    [r EXCEPT !.pc = "done",
              !.result = IF r.raised
                         THEN [kind |-> "raised", stats |-> EmptyDict, exc |-> r.exc]
                         ELSE r.result]

\* line 144: client.close(); an exception raised here leaves the finally clause
\* at once, so line 145 is not reached
ClientClose ==
    /\ run.pc = "client_close"
    /\ \E fault \in Faults :
          IF fault
          THEN /\ run' = Exit([run EXCEPT !.raised = TRUE, !.exc = SessionError])
               /\ faults' = faults - 1
          ELSE /\ run' = [run EXCEPT !.pc = "conn_close", !.session = "closed"]
               /\ UNCHANGED faults
    /\ UNCHANGED <<dbVars, getVars, source, hist>>

\* line 145: conn.close(); writes not committed are discarded with the connection
ConnClose ==
    /\ run.pc = "conn_close"
    /\ \E fault \in Faults :
          IF fault
          THEN /\ run' = Exit([run EXCEPT !.raised = TRUE, !.exc = DbError("close")])
               /\ faults' = faults - 1
               /\ UNCHANGED work
          ELSE /\ run' = Exit([run EXCEPT !.conn = "closed"])
               /\ work' = committed
               /\ UNCHANGED faults
    /\ UNCHANGED <<committed, clock, seq, call, repeats, getVars, source, hist>>

Next ==
    \/ RunStart
    \/ Connect
    \/ InitializeSchema
    \/ BeginRun
    \/ FetchPredictionDates
    \/ FetchDfsDates
    \/ FetchBacktestDates
    \/ FetchPredictions
    \/ StorePredictionSnapshot
    \/ UpsertPredictions
    \/ FetchAccuracy
    \/ StoreAccuracySnapshot
    \/ UpsertAccuracy
    \/ FetchSlate
    \/ StoreSlateSnapshot
    \/ UpsertSlate
    \/ FetchProjections
    \/ StoreProjectionSnapshot
    \/ UpsertProjections
    \/ FetchTop3
    \/ StoreTop3Snapshot
    \/ UpsertTop3
    \/ FetchPortfolio
    \/ StorePortfolioSnapshot
    \/ UpsertPortfolio
    \/ CommitRun
    \/ FinishRunSuccess
    \/ Rollback
    \/ FinishRunFailed
    \/ ClientClose
    \/ ConnClose

\* the steps of a call in which nothing is raised
NextRerun ==
    \/ RunStart
    \/ Connect
    \/ InitializeSchema
    \/ BeginRun
    \/ FetchPredictionDates
    \/ FetchDfsDates
    \/ FetchBacktestDates
    \/ FetchPredictions
    \/ StorePredictionSnapshot
    \/ UpsertPredictions
    \/ FetchAccuracy
    \/ StoreAccuracySnapshot
    \/ UpsertAccuracy
    \/ FetchSlate
    \/ StoreSlateSnapshot
    \/ UpsertSlate
    \/ FetchProjections
    \/ StoreProjectionSnapshot
    \/ UpsertProjections
    \/ FetchTop3
    \/ StoreTop3Snapshot
    \/ UpsertTop3
    \/ FetchPortfolio
    \/ StorePortfolioSnapshot
    \/ UpsertPortfolio
    \/ CommitRun
    \/ FinishRunSuccess
    \/ ClientClose
    \/ ConnClose

----------------------------------------------------------------------------
(* Claims about run_ingestion, checked under Spec *)

DataTables == NormalizedTables \cup {"snap"}

\* run_ingestion has returned or raised
Exited == run.pc = "done"
Returned == Exited /\ run.result.kind = "returned"

\* the positions inside the loops of lines 98-133
CyclePcs ==
    {"pred_fetch", "pred_snapshot", "upsert_prediction_rows",
     "acc_fetch", "acc_snapshot", "upsert_accuracy_rows",
     "slate_fetch", "slate_snapshot", "upsert_dfs_slate_row",
     "proj_fetch", "proj_snapshot", "upsert_dfs_projection_rows",
     "top3_fetch", "top3_snapshot", "upsert_top3_rows",
     "port_fetch", "port_snapshot", "upsert_portfolio_rows"}

\* C4: when run_ingestion has succeeded twice in succession against the same
\* source with the same date bounds, the second run has added no row to any
\* normalized table or to raw_endpoint_snapshot and has changed no stored payload:
\* the data tables are what the first run left, refresh timestamps aside.
C4_SecondRunAddsNothing ==
    (Returned /\ hist.prev_ok /\ hist.prev_source = source /\ hist.prev_bounds = Bounds(run))
    => /\ \A t \in NormalizedTables :
              WithoutTimestamps(committed[t]) = WithoutTimestamps(run.base[t])
       /\ committed.snap = run.base.snap

\* C5: a run row starts as running, a step changes its status only from running
\* to success or failed and never touches a row that is success or failed, and
\* when run_ingestion exits the row it created has been updated exactly once.
C5_RunRowMutatedExactlyOnce ==
    /\ [][/\ \A r \in committed.runs :
               \E q \in committed'.runs :
                   /\ q.run_id = r.run_id
                   /\ (r.status # "running" => q = r)
                   /\ q.status \in {"running", "success", "failed"}
          /\ \A q \in committed'.runs :
                 (\A r \in committed.runs : r.run_id # q.run_id) => q.status = "running"]_vars
    /\ []((Exited /\ run.run_id.has) => run.row_updates = 1)

\* C6: when an exception was raised inside one of the fetch/snapshot/upsert
\* cycles, then at the exit of run_ingestion the run row is failed with that
\* exception's message and the data tables are what they were before the run.
C6_CycleFailureEndsFailed ==
    (Exited /\ run.failed_at \in CyclePcs)
    => /\ RunRow.status = "failed"
       /\ RunRow.message = ExcMessage(run.cause)
       /\ \A t \in DataTables : committed[t] = run.base[t]

\* C7: the run row is marked success only by a step that finds every write of
\* the run already committed; a success row holds the accumulated statistics;
\* and a run that returns has a success row and returns the statistics that its row holds.
C7_SuccessAfterCommitWithStats ==
    /\ [][(run.run_id.has /\ run'.row_updates > run.row_updates /\ ~run.raised)
             => /\ run.commit_done
                /\ \A t \in DataTables : committed[t] = work[t] /\ committed'[t] = work[t]]_vars
    /\ [](Returned => /\ RunRow.status = "success"
                      /\ RunRow.stats = as_dict(run.stats)
                      /\ run.result.stats = RunRow.stats
                      /\ \A t \in DataTables : committed[t] = work[t])

C7_Witness ==
    /\ Returned
    /\ run.stats.prediction_rows > 0
    /\ run.stats.dfs_slate_rows > 0
    /\ committed.pred # run.base.pred
    /\ committed.snap # run.base.snap

\* C8: a slate fetch whose last response has status 404 writes nothing, raises
\* nothing, leaves the counters alone and is followed by the projections fetch
\* of the same date; and for a date so answered the run adds no slate row and
\* no slate snapshot.
C8_SlateNotFoundIsSkipped ==
    /\ [][(run.pc = "slate_fetch" /\ run'.pc # "slate_fetch"
            /\ FinalStatus(run'.fetched) = 404)
             => /\ work' = work /\ committed' = committed
                /\ ~run'.raised
                /\ run'.stats = run.stats
                /\ run'.pc = "proj_fetch" /\ run'.i = run.i]_vars
    /\ [](\A d \in run.not_found :
             /\ {r \in work.slate : r.slate_date = d} = {r \in run.base.slate : r.slate_date = d}
             /\ {r \in work.snap : r.endpoint = "/dfs/slate-results/{slate_date}"
                                   /\ r.snapshot_date = Some(d)}
                = {r \in run.base.snap : r.endpoint = "/dfs/slate-results/{slate_date}"
                                         /\ r.snapshot_date = Some(d)})

C8_Witness ==
    /\ Returned
    /\ 1 \in run.not_found
    /\ \E r \in committed.proj : r.slate_date = 1
    /\ \E r \in committed.slate : r.slate_date = 2
    /\ committed.top3 # {}

\* C18: whenever run_ingestion has returned or raised, the HTTP session of its
\* fetch client and its store connection, if it opened one, are closed. The
\* connection is opened before the try block and the two close calls share one
\* finally clause, so this fails.
C18_ResourcesClosedOnEveryExit ==
    Exited => /\ run.session # "open"
              /\ run.conn # "open"

\* the positions at which run_ingestion fetches from the source, and those at
\* which it writes a snapshot or upserts
FetchPcs ==
    {"prediction_dates", "dfs_dates", "backtest_dates", "pred_fetch", "acc_fetch",
     "slate_fetch", "proj_fetch", "top3_fetch", "port_fetch"}

WritePcs == CyclePcs \ FetchPcs

\* C22: a fetch that fails aborts the run, unless it is the slate fetch and the
\* status of its last response is 404; a snapshot or upsert that fails aborts the
\* run; and once the run is aborted it takes no further fetch, snapshot or
\* upsert step. _get_or_none looks for the text "(404)" anywhere in the message,
\* the body of the response included, so this fails.
C22_OnlyNotFoundSlateIsSkipped ==
    /\ [][(/\ run.pc \in FetchPcs /\ run' # run
           /\ run'.fetched # NoError
           /\ ~(run.pc = "slate_fetch" /\ FinalStatus(run'.fetched) = 404))
             => (run'.raised /\ run'.pc = "rollback")]_vars
    /\ [][(run.pc \in WritePcs /\ faults' < faults)
             => (run'.raised /\ run'.pc = "rollback")]_vars
    /\ [][run.raised => run'.pc \notin (FetchPcs \cup WritePcs)]_vars

\* the run was aborted: an exception reached the except clause of line 138
Aborted == run.failed_at # ""

\* C23: when an aborted run has exited, the statistics on its failed run row are
\* the counters the completed upserts had accumulated, and the exception the
\* caller receives is the one that caused the abort. An exception raised by
\* rollback, by finish_run or by one of the close calls takes the place of the
\* original one, so this fails.
C23_FailedRowKeepsStatsAndCauseIsRaised ==
    (Exited /\ Aborted)
    => /\ (run.run_id.has /\ RunRow.status = "failed") => RunRow.stats = as_dict(run.stats)
       /\ run.result.kind = "raised"
       /\ run.result.exc = run.cause

\* the place of a data step in the order of lines 94-133: the fetches of the
\* date lists, then the prediction dates, the accuracy summary, the DFS dates and
\* the backtest dates; within a domain by date, within a date by step
StepOrder(r) ==
    LET at(domain, d, step) == 1000 * domain + 10 * d + step IN
    CASE r.pc = "prediction_dates" -> at(0, 0, 1)
      [] r.pc = "dfs_dates" -> at(0, 0, 2)
      [] r.pc = "backtest_dates" -> at(0, 0, 3)
      [] r.pc = "pred_fetch" -> at(1, r.prediction_dates[r.i], 1)
      [] r.pc = "pred_snapshot" -> at(1, r.prediction_dates[r.i], 2)
      [] r.pc = "upsert_prediction_rows" -> at(1, r.prediction_dates[r.i], 3)
      [] r.pc = "acc_fetch" -> at(2, 0, 1)
      [] r.pc = "acc_snapshot" -> at(2, 0, 2)
      [] r.pc = "upsert_accuracy_rows" -> at(2, 0, 3)
      [] r.pc = "slate_fetch" -> at(3, r.dfs_dates[r.i], 1)
      [] r.pc = "slate_snapshot" -> at(3, r.dfs_dates[r.i], 2)
      [] r.pc = "upsert_dfs_slate_row" -> at(3, r.dfs_dates[r.i], 3)
      [] r.pc = "proj_fetch" -> at(3, r.dfs_dates[r.i], 4)
      [] r.pc = "proj_snapshot" -> at(3, r.dfs_dates[r.i], 5)
      [] r.pc = "upsert_dfs_projection_rows" -> at(3, r.dfs_dates[r.i], 6)
      [] r.pc = "top3_fetch" -> at(4, r.backtest_dates[r.i], 1)
      [] r.pc = "top3_snapshot" -> at(4, r.backtest_dates[r.i], 2)
      [] r.pc = "upsert_top3_rows" -> at(4, r.backtest_dates[r.i], 3)
      [] r.pc = "port_fetch" -> at(4, r.backtest_dates[r.i], 4)
      [] r.pc = "port_snapshot" -> at(4, r.backtest_dates[r.i], 5)
      [] r.pc = "upsert_portfolio_rows" -> at(4, r.backtest_dates[r.i], 6)
      [] OTHER -> 0

DataPcs == FetchPcs \cup WritePcs

\* C24: the run row exists before any fetch from the source, and every data
\* step is followed only by a data step that is later in the fixed order:
\* prediction dates ascending (fetch, snapshot, upsert), the accuracy summary,
\* DFS dates ascending (slate, then projections), backtest dates ascending (top3,
\* then portfolio).
C24_DataStepsInFixedOrder ==
    /\ [](run.pc \in DataPcs =>
             /\ run.run_id.has
             /\ \E r \in committed.runs : r.run_id = run.run_id.v)
    /\ [][(run.pc \in DataPcs /\ run'.pc \in DataPcs /\ run' # run)
             => StepOrder(run') > StepOrder(run)]_vars
    /\ [][(run.pc = "upsert_prediction_rows" /\ run'.pc \notin {"upsert_prediction_rows", "rollback"})
             => run'.pc = IF run.i < Len(run.prediction_dates) THEN "pred_fetch" ELSE "acc_fetch"]_vars

\* a run that went through one prediction date, the accuracy summary, two DFS
\* dates and one backtest date, and returned
C24_Witness ==
    /\ Returned
    /\ Len(run.prediction_dates) = 1 /\ Len(run.dfs_dates) = 2 /\ Len(run.backtest_dates) = 1
    /\ run.stats.prediction_rows > 0 /\ run.stats.accuracy_rows > 0
    /\ run.stats.dfs_slate_rows > 0 /\ run.stats.dfs_projection_rows > 0
    /\ run.stats.backtest_top3_rows > 0 /\ run.stats.backtest_portfolio_rows > 0

\* C25: in every state, when the row of the run is failed, the committed
\* snapshot and normalized tables are what they were before the run, whichever
\* step raised. finish_run(success) comes after conn.commit(): when it raises,
\* the run is marked failed with its writes committed, so this fails.
C25_FailedRunHasNothingCommitted ==
    (run.run_id.has /\ RunRow.status = "failed")
    => \A t \in DataTables : committed[t] = run.base[t]

\* C26: when run_ingestion has returned or raised, the row that begin_run
\* created for it is success or failed, never running. conn.rollback() and
\* finish_run(failed) can raise in the except clause before the row is updated,
\* so this fails.
C26_NoRunRowLeftRunning ==
    (Exited /\ run.run_id.has) => RunRow.status \in {"success", "failed"}

----------------------------------------------------------------------------
(* Two calls of run_ingestion at once, each on its own connection:           *)
(* ingestion.py lines 89-145 over db.py                                      *)

\* the writes of lines 98-133 when the source is SourceA, in order; each comes
\* after the fetch of what it stores
ConcWrites ==
    <<[NoCall EXCEPT !.op = "store_raw_snapshot", !.endpoint = "/predictions",
                     !.date = Some(1), !.payload = RowsPayload(SourceA.pred[1])],
      [NoCall EXCEPT !.op = "upsert_prediction_rows", !.date = Some(1),
                     !.rows = SourceA.pred[1]],
      [NoCall EXCEPT !.op = "store_raw_snapshot", !.endpoint = "/accuracy/daily-summary",
                     !.payload = SourceA.acc],
      [NoCall EXCEPT !.op = "upsert_accuracy_rows", !.rows = records(SourceA.acc)],
      [NoCall EXCEPT !.op = "store_raw_snapshot", !.endpoint = "/dfs/projections",
                     !.date = Some(1), !.payload = RowsPayload(SourceA.proj[1])],
      [NoCall EXCEPT !.op = "upsert_dfs_projection_rows", !.date = Some(1),
                     !.rows = SourceA.proj[1]],
      [NoCall EXCEPT !.op = "store_raw_snapshot", !.endpoint = "/dfs/slate-results/{slate_date}",
                     !.date = Some(2), !.payload = SourceA.slate[2]],
      [NoCall EXCEPT !.op = "upsert_dfs_slate_row", !.date = Some(2),
                     !.rows = <<SourceA.slate[2].d>>],
      [NoCall EXCEPT !.op = "store_raw_snapshot", !.endpoint = "/backtest/top3",
                     !.date = Some(1), !.payload = RowsPayload(SourceA.top3[1])],
      [NoCall EXCEPT !.op = "upsert_backtest_rows", !.table = "top3",
                     !.rows = SourceA.top3[1]]>>

\* the entries of the unique indexes that a write inserts or updates. A
\* snapshot without a date has none: NULLs are distinct in ux_raw_endpoint_snapshot
UniqueKeys(w) ==
    CASE w.op = "store_raw_snapshot" ->
            IF w.date.has
            THEN {[index |-> "snap", key |-> [endpoint |-> w.endpoint, date |-> w.date.v,
                                               hash |-> stable_hash(w.payload)]]}
            ELSE {}
      [] w.op = "upsert_prediction_rows" ->
            {[index |-> "pred", key |-> prediction_row_key(w.date.v, w.rows[i])] :
                i \in 1..Len(w.rows)}
      [] w.op = "upsert_accuracy_rows" ->
            {[index |-> "acc", key |-> [game_date |-> accuracy_date(w.rows[i]).v]] :
                i \in {j \in 1..Len(w.rows) : ~skips_row(accuracy_date(w.rows[j]))}}
      [] w.op = "upsert_dfs_projection_rows" ->
            {[index |-> "proj", key |-> dfs_projection_row_key(w.date.v, w.rows[i])] :
                i \in 1..Len(w.rows)}
      [] w.op = "upsert_dfs_slate_row" ->
            {[index |-> "slate", key |-> [slate_date |-> w.date.v]]}
      [] OTHER ->
            {[index |-> w.table, key |-> backtest_row_key("backtest_top3_daily", w.rows[i])] :
                i \in 1..Len(w.rows)}

\* the index entries written by the open transaction of connection c
Locked(c) == UNION {UniqueKeys(cc.txn[c].log[i].w) : i \in 1..Len(cc.txn[c].log)}

\* a write waits while another open transaction holds one of its index entries
Waits(c, w) == \E other \in Conns \ {c} : UniqueKeys(w) \cap Locked(other) # {}

\* one write applied to the tables its statement sees
ApplyWrite(t, e, now) ==
    LET w == e.w IN
    CASE w.op = "store_raw_snapshot" ->
            [t EXCEPT !.snap = store_raw_snapshot(@, w.endpoint, w.date, w.payload, e.id, now)]
      [] w.op = "upsert_prediction_rows" ->
            [t EXCEPT !.pred = upsert_prediction_rows(@, w.date.v, w.rows, now).tbl]
      [] w.op = "upsert_accuracy_rows" ->
            [t EXCEPT !.acc = upsert_accuracy_rows(@, w.rows, now).tbl]
      [] w.op = "upsert_dfs_projection_rows" ->
            [t EXCEPT !.proj = upsert_dfs_projection_rows(@, w.date.v, w.rows, now).tbl]
      [] w.op = "upsert_dfs_slate_row" ->
            [t EXCEPT !.slate = upsert_dfs_slate_row(@, w.date.v, w.rows[1], now).tbl]
      [] OTHER ->
            [t EXCEPT !.top3 = upsert_backtest_rows(@, "backtest_top3_daily", w.rows, now).tbl]

\* the writes of a transaction on top of the committed tables (READ COMMITTED:
\* each statement sees what is committed and what its own transaction wrote)
RECURSIVE WithWrites(_, _, _)
WithWrites(t, log, now) ==
    IF log = <<>> THEN t ELSE WithWrites(ApplyWrite(t, Head(log), now), Tail(log), now)

\* lines 89-92: connect, initialize_schema, begin_run (which commits its row)
ConcBeginRun ==
    \E c \in Conns :
        /\ cc.txn[c].phase = "idle"
        /\ LET b == begin_run(committed.runs, clock) IN
           /\ committed' = [committed EXCEPT !.runs = b.runs]
           /\ cc' = [cc EXCEPT !.txn[c] = [@ EXCEPT !.phase = "fetch", !.p = 1,
                                                   !.started = clock, !.run_id = b.run_id]]
        /\ clock' = clock + 1
        /\ UNCHANGED <<work, seq, call, repeats, g, pg, fn, runVars>>

\* the fetch before a write: no statement is sent to the store
ConcFetch ==
    \E c \in Conns :
        /\ cc.txn[c].phase = "fetch"
        /\ cc' = [cc EXCEPT !.txn[c].phase = "write"]
        /\ UNCHANGED <<dbVars, g, pg, fn, runVars>>

\* one write of lines 100-133, inside the connection's open transaction
ConcWrite ==
    \E c \in Conns :
        LET t == cc.txn[c]
            w == ConcWrites[t.p]
        IN  /\ t.phase = "write"
            /\ ~Waits(c, w)
            /\ cc' = [cc EXCEPT !.txn[c] =
                        [@ EXCEPT !.log = Append(@, [w |-> w, id |-> seq + 1]),
                                  !.p = @ + 1,
                                  !.phase = IF t.p = Len(ConcWrites) THEN "commit" ELSE "fetch"]]
            /\ seq' = IF w.op = "store_raw_snapshot" THEN seq + 1 ELSE seq
            /\ UNCHANGED <<committed, work, clock, call, repeats, g, pg, fn, runVars>>

\* line 135: conn.commit()
ConcCommit ==
    \E c \in Conns :
        LET t == cc.txn[c] IN
        /\ t.phase = "commit"
        /\ committed' = WithWrites(committed, t.log, t.started)
        /\ cc' = [cc EXCEPT !.txn[c] = [@ EXCEPT !.phase = "finish", !.log = <<>>]]
        /\ clock' = clock + 1
        /\ UNCHANGED <<work, seq, call, repeats, g, pg, fn, runVars>>

\* lines 136-137 and 144-145: finish_run(success), return, close
ConcFinish ==
    \E c \in Conns :
        LET t == cc.txn[c] IN
        /\ t.phase = "finish"
        /\ committed' = [committed EXCEPT !.runs =
                            finish_run(@, t.run_id, "success", TextMessage("Ingestion completed."),
                                       EmptyDict, clock)]
        /\ cc' = [cc EXCEPT !.txn[c] = [@ EXCEPT !.phase = "done", !.status = "success"]]
        /\ clock' = clock + 1
        /\ UNCHANGED <<work, seq, call, repeats, g, pg, fn, runVars>>

\* lines 138-145: a fetch raises; rollback, finish_run(failed), raise, close
ConcFail ==
    \E c \in Conns :
        LET t == cc.txn[c] IN
        /\ t.phase = "fetch"
        /\ cc.failures > 0
        /\ committed' = [committed EXCEPT !.runs =
                            finish_run(@, t.run_id, "failed",
                                       ExcMessage(AfterRetriesError("/predictions", RequestException)),
                                       EmptyDict, clock)]
        /\ cc' = [cc EXCEPT !.txn[c] = [@ EXCEPT !.phase = "done", !.status = "failed",
                                                !.log = <<>>],
                            !.failures = @ - 1]
        /\ clock' = clock + 1
        /\ UNCHANGED <<work, seq, call, repeats, g, pg, fn, runVars>>

NextConc ==
    ConcBeginRun \/ ConcFetch \/ ConcWrite \/ ConcCommit \/ ConcFinish \/ ConcFail

----------------------------------------------------------------------------
(* Claims about two calls of run_ingestion at once, under SpecConc *)

BothFinished == \A c \in Conns : cc.txn[c].phase = "done"

\* at most one row of the table under each value of its natural key
OneRowPerKey(tbl, key) == \A r1, r2 \in tbl : r1[key] = r2[key] => r1 = r2

\* C19: when two calls of run_ingestion over the same source data have both
\* finished, however their steps interleaved, every normalized table holds at
\* most one row per natural key and raw_endpoint_snapshot at most one row per
\* (endpoint, date, content hash). The snapshot of the accuracy summary is
\* stored without a date and both runs insert it, so this fails.
C19_OneRowPerKeyAfterConcurrentRuns ==
    BothFinished =>
        /\ OneRowPerKey(committed.pred, "row_key")
        /\ OneRowPerKey(committed.proj, "row_key")
        /\ OneRowPerKey(committed.top3, "row_key")
        /\ OneRowPerKey(committed.port, "row_key")
        /\ OneRowPerKey(committed.acc, "game_date")
        /\ OneRowPerKey(committed.slate, "slate_date")
        /\ \A r1, r2 \in committed.snap :
              (/\ r1.endpoint = r2.endpoint
               /\ r1.snapshot_date = r2.snapshot_date
               /\ r1.payload_hash = r2.payload_hash) => r1 = r2

----------------------------------------------------------------------------
(* Specifications *)

\* the persistence layer called directly
InitDb == InitDbVars /\ InitGetVars /\ InitRunVars

SpecDb == InitDb /\ [][NextDb]_vars

\* one call of NbaDailyApiClient.get
InitGet == InitDbVars /\ InitGetVars /\ InitRunVars

SpecGet == InitGet /\ [][NextGet]_vars
\* one call of NbaDailyApiClient.paginated_records
InitPag == InitDbVars /\ InitGetVars /\ InitRunVars
SpecPag == InitPag /\ [][NextPag]_vars
\* one call of filter_dates or of NbaDailyApiClient.records
InitFn == InitDbVars /\ InitGetVars /\ InitRunVars
SpecFn == InitFn /\ [][NextFn]_vars
\* two calls of run_ingestion at once over the same source data
InitConc == InitDbVars /\ InitGetVars /\ InitRunVars
SpecConc == InitConc /\ [][NextConc]_vars
\* one call of run_ingestion on an empty store, with steps that may fail
Init ==
    /\ InitDbVars
    /\ InitGetVars
    /\ source = SourceA
    /\ run = IdleRun
    /\ faults = MaxFaults
    /\ hist = [NoHist EXCEPT !.left = 1]
Spec == Init /\ [][Next]_vars
\* successive calls of run_ingestion, the source always answering and the store
\* never failing, so that no call enters the except clause
InitRerun ==
    /\ InitDbVars
    /\ InitGetVars
    /\ source = SourceA
    /\ run = IdleRun
    /\ faults = 0
    /\ hist = [NoHist EXCEPT !.left = MaxRuns]
SpecRerun == InitRerun /\ [][NextRerun]_vars

====
